---- MODULE Spec2Model ----
(***************************************************************************)
(* Model of tox_lsr/test_scripts/runqemu.py: the image cache (fetch_image), *)
(* the snapshot manager (refresh_snapshot), the runner call                *)
(* (internal_run_ansible_playbooks), image resolution (get_url) and the    *)
(* orchestration of a run (runqemu).                                       *)
(*                                                                         *)
(* Python values that are "a string or None" are modelled as tuples of     *)
(* strings: None is the empty tuple, the string s is <<s>>, and a URL is   *)
(* the tuple <<directory part, basename root, extension>>.                 *)
(***************************************************************************)
EXTENDS Integers, Sequences, FiniteSets, TLC

VARIABLES
    remote,     \* the origin: URL -> value of its Last-Modified header
    files,      \* the cache directory: target path -> file
    orphans,    \* temporary files in the cache directory that no call owns
    fetch,      \* per process: the position and locals of its fetch_image call
    ncalls,     \* number of fetch_image calls started so far
    hist        \* the fetch_image call that returned last

fetchVars == <<remote, files, orphans, fetch, ncalls, hist>>

VARIABLES
    now,        \* the host clock, in time units
    image,      \* the backing image file: its st_ctime
    snap,       \* the snapshot file: whether it exists, its st_ctime
    lock,       \* the lock-indicator file: whether it exists, the pid in it
    guest,      \* the guest process of the last runner call
    rs,         \* the position and locals of the refresh_snapshot call
    ir,         \* the same of the internal_run_ansible_playbooks call
    nticks,     \* clock steps taken so far
    nrefresh    \* refresh_snapshot calls started so far

snapVars == <<now, image, snap, lock, guest, rs, ir, nticks, nrefresh>>

VARIABLES
    run,        \* the position and locals of the runqemu call
    docs,       \* the two conditioning documents in the cache directory
    nruns,      \* runqemu calls started so far
    cq,         \* a composeurl2images call: its arguments and its result
    gq,         \* a get_url call: the descriptor and the result
    hq,         \* a centoshtml2image call: the page and the result
    mq,         \* a make_setup_yml call: its arguments and what it returned
    aq          \* the argument split of run_ansible_playbooks: in and out

queryVars == <<cq, gq, hq, mq, aq>>

runVars == <<run, docs, nruns, queryVars>>

vars == <<fetchVars, snapVars, runVars>>

(***************************** bounds ***************************************)

\* fetch_image calls per behaviour
MaxCalls == 3

\* steps of the host clock per behaviour
MaxTicks == 3

\* refresh_snapshot calls per behaviour
MaxRefresh == 2

\* runqemu calls per behaviour
MaxRuns == 2

\* make_setup_yml calls per behaviour
MaxMakes == 2

\* links of an index page
MaxPage == 3

\* remaining command-line arguments
MaxArgs == 3

(************************** values and inputs *******************************)

PyNone == <<>>

EmptyStr == <<"">>

URLs == { <<"http://x/", "f34", ".qcow2">>,
          <<"http://y/centos/9-stream/", "f34", ".qcow2">> }

Labels == {"f34"}

\* what the origin can answer for the Last-Modified header (None: no header)
HeaderValues == { <<"Mon">>, <<"Tue">>, PyNone }

Procs == {1}

\* two invocations that share the cache directory
Racers == {1, 2}

\* os.path.splitext(os.path.basename(urlparse(url).path))[1]
Suffix(url) == url[3]

\* os.path.join(cache, label + suffix)
PathOf(url, label) == <<label, Suffix(url)>>

Paths == { PathOf(u, l) : u \in URLs, l \in Labels }

NoPath == <<>>

(******************************* files **************************************)

\* a body: the URL it was read from (src), the version of the origin's
\* content it holds (ver: the content changes with the header), the header
\* value the downloading call had seen (hdr), and whether it is complete
NoBody == [src |-> PyNone, ver |-> PyNone, hdr |-> PyNone, full |-> FALSE]

\* a file: its body and its two xattrs (None: the xattr is not set)
NoFile == [exists |-> FALSE, body |-> NoBody, url |-> PyNone, date |-> PyNone]

\* a file just created by tempfile.NamedTemporaryFile: empty, no xattrs
EmptyFile == [NoFile EXCEPT !.exists = TRUE]

\* the body served for url right now, as downloaded by a call that saw hdr
RemoteBody(url, hdr) ==
    [src |-> url, ver |-> remote[url], hdr |-> hdr, full |-> TRUE]

\* what is on disk when the transfer breaks off
PartialBody(url, hdr) ==
    [src |-> url, ver |-> remote[url], hdr |-> hdr, full |-> FALSE]

\* get_metadata_from_file: the xattr, or None on ENODATA
get_metadata_from_file(f, key) == IF key = "url" THEN f.url ELSE f.date

image_source_last_modified_by_file_metadata(f) ==
    IF f.exists THEN get_metadata_from_file(f, "date") ELSE EmptyStr

origurl(f) == get_metadata_from_file(f, "url")

(**************************** refresh_snapshot ******************************)

\* the staleness window of the snapshot, in seconds (one day)
StaleWindow == 86400

\* the settle time slept after a refresh, in seconds
DEFAULT_POST_SNAP_SLEEP_TIME == 1

\* how far the clock moves in one step
Deltas == {1, StaleWindow - 1, StaleWindow}

\* the snapshot file: st_ctime, how far its conditioning has come ("new":
\* just created, "run": the playbooks have run, "settled": the sync and the
\* sleep after them are done), and the backing file that qemu-img create
\* was given (base: the st_ctime of the image file at that time)
NoSnap == [exists |-> FALSE, ctime |-> 0, cond |-> "none", base |-> 0]

\* image["file"]: the image file in the cache directory
ImageFile == CHOOSE path \in Paths : TRUE

\* snapfile = image["file"] + ".snap"
SnapFile(file) == file \o <<".snap">>

\* the environment handed to the runner: the keys the program sets, each
\* None when the key is absent
NoEnv == [TEST_SUBJECTS |-> PyNone, TEST_WRITE_TO_IMAGE |-> PyNone,
          TEST_DEBUG |-> PyNone, TEST_ARTIFACTS |-> PyNone,
          TEST_INVENTORY |-> PyNone, LOCK_ON_FILE |-> PyNone]

\* the environments refresh_snapshot is called with: run_ansible_playbooks
\* has set the snapshot as the subject and the artifacts directory, and
\* TEST_DEBUG if debugging was asked for
TestEnvs ==
    { [NoEnv EXCEPT !.TEST_SUBJECTS = SnapFile(ImageFile),
                    !.TEST_ARTIFACTS = <<"artifacts">>,
                    !.TEST_DEBUG = d] : d \in {PyNone, <<"true">>} }

\* test_env_setup, lines 600-608: a copy of test_env that lets the guest
\* write to the image, without TEST_DEBUG, with its own artifacts directory
SetupEnv(test_env) ==
    [test_env EXCEPT !.TEST_WRITE_TO_IMAGE = <<"True">>,
                     !.TEST_DEBUG = PyNone,
                     !.TEST_ARTIFACTS =
                         IF @ # PyNone THEN @ \o <<".snap">> ELSE @]

\* the lock-indicator file: whether it exists, and the process id in it
NoLock == [exists |-> FALSE, pid |-> 0]

\* the guest process: "none" before any runner call; recorded: its process
\* id was written to the lock-indicator file
NoGuest == [state |-> "none", pid |-> 0, recorded |-> FALSE]

\* the process id of the guest process that the inventory script starts
GuestPid == 1

\* os.kill(pid, 0) finds a process
Alive(pid) == guest.state = "alive" /\ guest.pid = pid

\* the steps of a refresh, each logged when it starts and when it has succeeded
FullLog == <<"create", "create.ok", "run", "run.ok", "sync", "sync.ok",
             "sleep", "sleep.ok">>

IdleRefresh == [pc |-> "idle", need_refresh |-> FALSE, checked |-> FALSE,
                snap_ctime |-> 0, file_ctime |-> 0, now |-> 0,
                log |-> <<>>, ret |-> "pending", pre |-> NoSnap,
                test_env |-> NoEnv, setup_yml |-> <<>>]

\* TooOld with a fault: a snapshot exactly one window old counts as too old
TooOldAtWindow(t, snap_ctime) == t - snap_ctime >= StaleWindow

\* now - snap_stats.st_ctime > 86400
TooOld(t, snap_ctime) == t - snap_ctime > StaleWindow

\* OlderThanBacking with a fault: the comparison is the wrong way round
OlderThanBackingFlipped(snap_ctime, file_ctime) == snap_ctime > file_ctime

\* OlderThanBacking with a fault: a snapshot as old as its backing file
\* counts as older
OlderThanBackingOrEqual(snap_ctime, file_ctime) == snap_ctime <= file_ctime

\* snap_stats.st_ctime < file_stats.st_ctime
OlderThanBacking(snap_ctime, file_ctime) == snap_ctime < file_ctime

\* NeedRefresh with a fault: a missing snapshot file is not noticed
NeedRefreshNoIsfile(s, file_ctime, t) ==
    \/ TooOld(t, s.ctime)
    \/ OlderThanBacking(s.ctime, file_ctime)

\* need_refresh as the first if statement of refresh_snapshot computes it
NeedRefresh(s, file_ctime, t) ==
    IF ~s.exists
    THEN TRUE
    ELSE IF TooOld(t, s.ctime)
         THEN TRUE
         ELSE OlderThanBacking(s.ctime, file_ctime)

\* AfterCheck with a fault: the sync and the sleep are outside the if statement
AfterCheckDedent(need_refresh) == IF need_refresh THEN "create" ELSE "sync"

\* if need_refresh: ... (otherwise the function returns)
AfterCheck(need_refresh) == IF need_refresh THEN "create" ELSE "done"

\* AfterCreateFail with a fault: the exit status of qemu-img is ignored
AfterCreateFailIgnored == "env"

\* subprocess.check_call raises CalledProcessError, which leaves the function
AfterCreateFail == "done"

\* RefreshWait with a fault: the argument is left out, so the default holds
RefreshWaitDefault == FALSE

\* the wait_on_qemu argument of the conditioning run: the literal True
RefreshWait == TRUE

\* the locals of refresh_snapshot when it is entered
RefreshEntry(test_env, setup_yml) ==
    [IdleRefresh EXCEPT !.pc = "check", !.pre = snap, !.test_env = test_env,
                        !.setup_yml = setup_yml]

\* the conditioning playbooks refresh_snapshot is called with
SetupLists == { << <<"/cache/", "f34_setup.yml">> >> }

\* refresh_snapshot(...) is called
RefreshCall(test_env, setup_yml) ==
    /\ rs.pc = "idle"
    /\ nrefresh < MaxRefresh
    /\ nrefresh' = nrefresh + 1
    /\ rs' = RefreshEntry(test_env, setup_yml)
    /\ UNCHANGED <<now, image, snap, lock, guest, ir, nticks, fetchVars,
                   runVars>>

\* lines 565-583: os.path.isfile, os.stat of both files, time.time()
Check ==
    /\ rs.pc = "check"
    /\ LET need == NeedRefresh(snap, image.ctime, now) IN
       rs' = [rs EXCEPT !.need_refresh = need,
                        !.checked = TRUE,
                        !.snap_ctime = snap.ctime,
                        !.file_ctime = image.ctime,
                        !.now = now,
                        !.ret = IF AfterCheck(need) = "done"
                                THEN "ok" ELSE "pending",
                        !.pc = AfterCheck(need)]
    /\ UNCHANGED <<now, image, snap, lock, guest, ir, nticks, nrefresh,
                   fetchVars, runVars>>

\* qemu-img create -f qcow2 -b image_file -F qcow2 snapfile succeeds
Create ==
    /\ rs.pc = "create"
    /\ snap' = [exists |-> TRUE, ctime |-> now, cond |-> "new",
                base |-> image.ctime]
    /\ rs' = [rs EXCEPT !.log = @ \o <<"create", "create.ok">>, !.pc = "env"]
    /\ UNCHANGED <<now, image, lock, guest, ir, nticks, nrefresh, fetchVars,
                   runVars>>

\* qemu-img exits non-zero
CreateFail ==
    /\ rs.pc = "create"
    /\ rs' = [rs EXCEPT !.log = @ \o <<"create">>,
                        !.ret = IF AfterCreateFail = "done"
                                THEN "raise" ELSE "pending",
                        !.pc = AfterCreateFail]
    /\ UNCHANGED <<now, image, snap, lock, guest, ir, nticks, nrefresh,
                   fetchVars, runVars>>

(********************* internal_run_ansible_playbooks ***********************)

IdleRun == [pc |-> "idle", site |-> "none", wait_on_qemu |-> FALSE,
            test_env |-> NoEnv, playbooks |-> <<>>, waitpid |-> 0,
            sleeps |-> 0, ret |-> "pending"]

\* the locals of internal_run_ansible_playbooks when it is entered from site
\* ("refresh": the conditioning run, "final": the test run)
RunEntry(site, test_env, playbooks, wait_on_qemu) ==
    [IdleRun EXCEPT !.pc = "lock", !.site = site, !.test_env = test_env,
                    !.playbooks = playbooks, !.wait_on_qemu = wait_on_qemu]

\* lines 600-616: refresh_snapshot builds test_env_setup and calls
\* internal_run_ansible_playbooks with it
Condition ==
    /\ rs.pc = "env"
    /\ ir.pc = "idle"
    /\ ir' = RunEntry("refresh", SetupEnv(rs.test_env), rs.setup_yml,
                      RefreshWait)
    /\ rs' = [rs EXCEPT !.log = @ \o <<"run">>, !.pc = "run"]
    /\ UNCHANGED <<now, image, snap, lock, guest, nticks, nrefresh, fetchVars,
                   runVars>>

\* lines 521-523: with wait_on_qemu a fresh lock file name is put into the
\* environment; no file of that name exists
LockName ==
    /\ ir.pc = "lock"
    /\ IF ir.wait_on_qemu
       THEN /\ lock' = NoLock
            /\ ir' = [ir EXCEPT !.test_env.LOCK_ON_FILE = <<"lock">>,
                                !.pc = "runner"]
       ELSE /\ lock' = lock
            /\ ir' = [ir EXCEPT !.pc = "runner"]
    /\ UNCHANGED <<now, image, snap, guest, rs, nticks, nrefresh, fetchVars,
                   runVars>>

\* what a runner call does to the snapshot file: a guest that is told to
\* write to its image changes the file named by TEST_SUBJECTS
GuestWrites(s, test_env) ==
    IF /\ test_env.TEST_WRITE_TO_IMAGE = <<"True">>
       /\ test_env.TEST_SUBJECTS = SnapFile(ImageFile)
       /\ s.exists
    THEN [s EXCEPT !.ctime = now, !.cond = "run"]
    ELSE s

\* ansible-playbook exits 0.  The inventory script has started a guest
\* process, which may be running still or gone already; it may have left the
\* process id in the file that LOCK_ON_FILE names.
Runner(wrote, g) ==
    /\ ir.pc = "runner"
    /\ wrote => ir.test_env.LOCK_ON_FILE # PyNone
    /\ snap' = GuestWrites(snap, ir.test_env)
    /\ guest' = [state |-> g, pid |-> GuestPid, recorded |-> wrote]
    /\ lock' = IF wrote
               THEN [exists |-> TRUE, pid |-> GuestPid]
               ELSE lock
    /\ ir' = [ir EXCEPT !.pc = "waitread"]
    /\ UNCHANGED <<now, image, rs, nticks, nrefresh, fetchVars, runVars>>

\* ansible-playbook exits non-zero: control goes to the except clause
RunnerFail(wrote, g) ==
    /\ ir.pc = "runner"
    /\ wrote => ir.test_env.LOCK_ON_FILE # PyNone
    /\ guest' = [state |-> g, pid |-> GuestPid, recorded |-> wrote]
    /\ lock' = IF wrote
               THEN [exists |-> TRUE, pid |-> GuestPid]
               ELSE lock
    /\ ir' = [ir EXCEPT !.pc = "cleanup"]
    /\ UNCHANGED <<now, image, snap, rs, nticks, nrefresh, fetchVars,
                   runVars>>

\* Cleanup with a fault: the lock file is not removed before the raise
CleanupNoUnlink ==
    /\ ir.pc = "cleanup"
    /\ ir' = [ir EXCEPT !.ret = "raise", !.pc = "done"]
    /\ UNCHANGED <<now, image, snap, lock, guest, rs, nticks, nrefresh,
                   fetchVars, runVars>>

\* except CalledProcessError: unlink the lock file if it exists; raise
Cleanup ==
    /\ ir.pc = "cleanup"
    /\ lock' = IF ir.wait_on_qemu /\ lock.exists THEN NoLock ELSE lock
    /\ ir' = [ir EXCEPT !.ret = "raise", !.pc = "done"]
    /\ UNCHANGED <<now, image, snap, guest, rs, nticks, nrefresh, fetchVars,
                   runVars>>

\* WaitRead with a fault: the lock file is unlinked after the loop
WaitReadKeepLock ==
    /\ ir.pc = "waitread"
    /\ IF ir.wait_on_qemu /\ lock.exists
       THEN ir' = [ir EXCEPT !.waitpid = lock.pid, !.pc = "poll"]
       ELSE ir' = [ir EXCEPT !.ret = "ok", !.pc = "done"]
    /\ UNCHANGED <<now, image, snap, lock, guest, rs, nticks, nrefresh,
                   fetchVars, runVars>>

\* lines 542-545: with wait_on_qemu and a lock file, read the pid and unlink
\* the file, then poll; otherwise the function returns
WaitRead ==
    /\ ir.pc = "waitread"
    /\ IF ir.wait_on_qemu /\ lock.exists
       THEN /\ ir' = [ir EXCEPT !.waitpid = lock.pid, !.pc = "poll"]
            /\ lock' = NoLock
       ELSE /\ ir' = [ir EXCEPT !.ret = "ok", !.pc = "done"]
            /\ lock' = lock
    /\ UNCHANGED <<now, image, snap, guest, rs, nticks, nrefresh, fetchVars,
                   runVars>>

\* os.kill(waitpid, 0) finds the process: time.sleep(1) and probe again
PollSleep ==
    /\ ir.pc = "poll"
    /\ Alive(ir.waitpid)
    /\ nticks < MaxTicks
    /\ nticks' = nticks + 1
    /\ now' = now + 1
    /\ ir' = [ir EXCEPT !.sleeps = @ + 1]
    /\ UNCHANGED <<image, snap, lock, guest, rs, nrefresh, fetchVars, runVars>>

\* PollBreak with a fault: the loop gives up after one sleep
PollBreakTimeout ==
    /\ ir.pc = "poll"
    /\ ~Alive(ir.waitpid) \/ ir.sleeps >= 1
    /\ ir' = [ir EXCEPT !.ret = "ok", !.pc = "done"]
    /\ UNCHANGED <<now, image, snap, lock, guest, rs, nticks, nrefresh,
                   fetchVars, runVars>>

\* os.kill(waitpid, 0) raises ProcessLookupError: break, return
PollBreak ==
    /\ ir.pc = "poll"
    /\ ~Alive(ir.waitpid)
    /\ ir' = [ir EXCEPT !.ret = "ok", !.pc = "done"]
    /\ UNCHANGED <<now, image, snap, lock, guest, rs, nticks, nrefresh,
                   fetchVars, runVars>>

\* CallerEnv with a fault: test_env_setup = test_env, the same dict
CallerEnvAliased(test_env, test_env_setup) == test_env_setup

\* the dict test_env of refresh_snapshot after the conditioning run: lines
\* 600-601 made test_env_setup a dict of its own, so the assignments of
\* lines 602-608 and of the runner call (line 523) went to that one
CallerEnv(test_env, test_env_setup) == test_env

\* internal_run_ansible_playbooks has returned to refresh_snapshot, or its
\* CalledProcessError passes through refresh_snapshot
Conditioned ==
    /\ rs.pc = "run"
    /\ ir.pc = "done"
    /\ ir.site = "refresh"
    /\ IF ir.ret = "ok"
       THEN rs' = [rs EXCEPT !.test_env = CallerEnv(@, ir.test_env),
                             !.log = @ \o <<"run.ok">>, !.pc = "sync"]
       ELSE rs' = [rs EXCEPT !.test_env = CallerEnv(@, ir.test_env),
                             !.ret = "raise", !.pc = "done"]
    /\ ir' = IdleRun
    /\ UNCHANGED <<now, image, snap, lock, guest, nticks, nrefresh, fetchVars,
                   runVars>>

\* subprocess.check_call(["/bin/sync"]) succeeds
Sync ==
    /\ rs.pc = "sync"
    /\ rs' = [rs EXCEPT !.log = @ \o <<"sync", "sync.ok">>, !.pc = "sleep"]
    /\ UNCHANGED <<now, image, snap, lock, guest, ir, nticks, nrefresh,
                   fetchVars, runVars>>

\* /bin/sync exits non-zero: CalledProcessError leaves the function
SyncFail ==
    /\ rs.pc = "sync"
    /\ rs' = [rs EXCEPT !.log = @ \o <<"sync">>, !.ret = "raise",
                        !.pc = "done"]
    /\ UNCHANGED <<now, image, snap, lock, guest, ir, nticks, nrefresh,
                   fetchVars, runVars>>

\* time.sleep(post_snap_sleep_time); the function returns
Sleep ==
    /\ rs.pc = "sleep"
    /\ now' = now + DEFAULT_POST_SNAP_SLEEP_TIME
    /\ snap' = [snap EXCEPT !.cond = "settled"]
    /\ rs' = [rs EXCEPT !.log = @ \o <<"sleep", "sleep.ok">>, !.ret = "ok",
                        !.pc = "done"]
    /\ UNCHANGED <<image, lock, guest, ir, nticks, nrefresh, fetchVars,
                   runVars>>

\* the caller goes on
RefreshReturn ==
    /\ rs.pc = "done"
    /\ rs' = IdleRefresh
    /\ UNCHANGED <<now, image, snap, lock, guest, ir, nticks, nrefresh,
                   fetchVars, runVars>>

\* time passes
Tick(d) ==
    /\ nticks < MaxTicks
    /\ nticks' = nticks + 1
    /\ now' = now + d
    /\ UNCHANGED <<image, snap, lock, guest, rs, ir, nrefresh, fetchVars,
                   runVars>>

\* the backing image is replaced (a later fetch_image renames a new file
\* over it), between two refresh_snapshot calls
ImageChange ==
    /\ rs.pc = "idle"
    /\ image.ctime # now
    /\ image' = [ctime |-> now]
    /\ UNCHANGED <<now, snap, lock, guest, rs, ir, nticks, nrefresh,
                   fetchVars, runVars>>

\* the guest process ends
GuestExit ==
    /\ guest.state = "alive"
    /\ guest' = [guest EXCEPT !.state = "gone"]
    /\ UNCHANGED <<now, image, snap, lock, rs, ir, nticks, nrefresh,
                   fetchVars, runVars>>

\* a complete entry as fetch_image leaves it for url when the origin's
\* header is hdr
Entry(url, hdr) ==
    [exists |-> TRUE,
     body |-> [src |-> url, ver |-> hdr, hdr |-> hdr, full |-> TRUE],
     url |-> url, date |-> hdr]

\* files that can be in the cache directory before a call: entries of
\* earlier calls, with both xattrs or with one or both of them missing
\* (ENODATA)
PreFiles ==
    {NoFile}
    \cup { [Entry(u, <<"Mon">>) EXCEPT
                !.url = IF hasUrl THEN u ELSE PyNone,
                !.date = IF hasDate THEN <<"Mon">> ELSE PyNone] :
             u \in URLs, hasUrl \in BOOLEAN, hasDate \in BOOLEAN }

(***************************** fetch_image **********************************)

Pending == [kind |-> "pending", path |-> NoPath]

Returned(path) == [kind |-> "path", path |-> path]

ReturnedNone == [kind |-> "none", path |-> NoPath]

Raised == [kind |-> "raise", path |-> NoPath]

IdleFetch == [pc |-> "idle", url |-> PyNone, label |-> "",
              path |-> NoPath, lmSrc |-> PyNone, lmFile |-> PyNone,
              tmp |-> NoFile, xfers |-> 0, headOk |-> FALSE,
              copyFailed |-> FALSE,
              ret |-> Pending, pre |-> NoFile]

\* NeedFetch with a fault: the last-modified comparison is forgotten
NeedFetchNoDate(f, url, lmSrc, lmFile) ==
    \/ ~f.exists
    \/ url # origurl(f)

\* NeedFetch with a fault: the origin URL comparison is forgotten
NeedFetchNoUrl(f, url, lmSrc, lmFile) ==
    \/ ~f.exists
    \/ lmSrc # lmFile

\* NeedFetch with a fault: the last-modified comparison is inverted
NeedFetchDateEq(f, url, lmSrc, lmFile) ==
    \/ ~f.exists
    \/ url # origurl(f)
    \/ lmSrc = lmFile

\* the condition of the if statement
NeedFetch(f, url, lmSrc, lmFile) ==
    \/ ~f.exists
    \/ url # origurl(f)
    \/ lmSrc # lmFile

\* AfterCopy with a fault: the temporary file is renamed before it is tagged
AfterCopyRenameFirst == "rename"

\* the statement that follows a successful copy
AfterCopy == "seturl"

\* the locals of fetch_image when it is entered: lines 147-150
FetchEntry(url, label) ==
    [IdleFetch EXCEPT !.pc = "head", !.url = url,
                      !.label = label, !.path = PathOf(url, label),
                      !.pre = files[PathOf(url, label)]]

\* fetch_image(url, cache, label) is called
FetchCall(p, url, label) ==
    /\ fetch[p].pc = "idle"
    /\ ncalls < MaxCalls
    /\ ncalls' = ncalls + 1
    /\ fetch' = [fetch EXCEPT ![p] = FetchEntry(url, label)]
    /\ UNCHANGED <<remote, files, orphans, hist, snapVars, runVars>>
\* get_metadata_from_url(url, "Last-Modified") answers
GetHeader(p) ==
    /\ fetch[p].pc = "head"
    /\ fetch' = [fetch EXCEPT ![p].lmSrc = remote[fetch[p].url],
                              ![p].headOk = TRUE,
                              ![p].pc = "stat"]
    /\ UNCHANGED <<remote, files, orphans, ncalls, hist, snapVars, runVars>>
\* get_metadata_from_url raises (urlopen fails): the exception leaves fetch_image
GetHeaderFail(p) ==
    /\ fetch[p].pc = "head"
    /\ fetch' = [fetch EXCEPT ![p].ret = Raised, ![p].pc = "done"]
    /\ UNCHANGED <<remote, files, orphans, ncalls, hist, snapVars, runVars>>
\* image_last_modified_by_file = image_source_last_modified_by_file_metadata(path)
Stat(p) ==
    /\ fetch[p].pc = "stat"
    /\ fetch' = [fetch EXCEPT
          ![p].lmFile =
              image_source_last_modified_by_file_metadata(files[fetch[p].path]),
          ![p].pc = "decide"]
    /\ UNCHANGED <<remote, files, orphans, ncalls, hist, snapVars, runVars>>
\* the if statement: fetch, or use the cached image and return path
Decide(p) ==
    /\ fetch[p].pc = "decide"
    /\ IF NeedFetch(files[fetch[p].path], fetch[p].url, fetch[p].lmSrc,
                    fetch[p].lmFile)
       THEN fetch' = [fetch EXCEPT ![p].pc = "mktemp"]
       ELSE fetch' = [fetch EXCEPT ![p].ret = Returned(fetch[p].path),
                                   ![p].pc = "done"]
    /\ UNCHANGED <<remote, files, orphans, ncalls, hist, snapVars, runVars>>
\* image_tempfile = tempfile.NamedTemporaryFile(dir=cache, delete=False)
MkTemp(p) ==
    /\ fetch[p].pc = "mktemp"
    /\ fetch' = [fetch EXCEPT ![p].tmp = EmptyFile, ![p].pc = "copy"]
    /\ UNCHANGED <<remote, files, orphans, ncalls, hist, snapVars, runVars>>
\* urlopen(url); copyfileobj(request, image_tempfile); request.close()
Copy(p) ==
    /\ fetch[p].pc = "copy"
    /\ fetch' = [fetch EXCEPT
          ![p].tmp = [@ EXCEPT !.body = RemoteBody(fetch[p].url, fetch[p].lmSrc)],
          ![p].xfers = @ + 1,
          ![p].pc = AfterCopy]
    /\ UNCHANGED <<remote, files, orphans, ncalls, hist, snapVars, runVars>>
\* the transfer raises: control goes to the except clause
CopyFail(p) ==
    /\ fetch[p].pc = "copy"
    /\ fetch' = [fetch EXCEPT
          ![p].tmp = [@ EXCEPT !.body = PartialBody(fetch[p].url, fetch[p].lmSrc)],
          ![p].xfers = @ + 1,
          ![p].copyFailed = TRUE,
          ![p].pc = "except"]
    /\ UNCHANGED <<remote, files, orphans, ncalls, hist, snapVars, runVars>>
\* Except with a fault: the partial temporary file is not removed
ExceptKeepTemp(p) ==
    /\ fetch[p].pc = "except"
    /\ orphans' = orphans \cup {fetch[p].tmp}
    /\ fetch' = [fetch EXCEPT ![p].tmp = NoFile, ![p].ret = ReturnedNone,
                              ![p].pc = "done"]
    /\ UNCHANGED <<remote, files, ncalls, hist, snapVars, runVars>>
\* except Exception: os.unlink(image_tempfile.name); return None
Except(p) ==
    /\ fetch[p].pc = "except"
    /\ fetch' = [fetch EXCEPT ![p].tmp = NoFile, ![p].ret = ReturnedNone,
                              ![p].pc = "done"]
    /\ UNCHANGED <<remote, files, orphans, ncalls, hist, snapVars, runVars>>
\* os.setxattr(image_tempfile.name, URL_XATTR, os.fsencode(url))
SetUrl(p) ==
    /\ fetch[p].pc = "seturl"
    /\ fetch' = [fetch EXCEPT
          ![p].tmp = [@ EXCEPT !.url = fetch[p].url],
          ![p].pc = "setdate"]
    /\ UNCHANGED <<remote, files, orphans, ncalls, hist, snapVars, runVars>>
\* os.setxattr(image_tempfile.name, DATE_XATTR, os.fsencode(lmSrc));
\* os.fsencode(None) raises TypeError, which leaves fetch_image with the
\* temporary file still in the cache directory
SetDate(p) ==
    /\ fetch[p].pc = "setdate"
    /\ IF fetch[p].lmSrc = PyNone
       THEN /\ orphans' = orphans \cup {fetch[p].tmp}
            /\ fetch' = [fetch EXCEPT ![p].tmp = NoFile, ![p].ret = Raised,
                                      ![p].pc = "done"]
       ELSE /\ orphans' = orphans
            /\ fetch' = [fetch EXCEPT
                  ![p].tmp = [@ EXCEPT !.date = fetch[p].lmSrc],
                  ![p].pc = "rename"]
    /\ UNCHANGED <<remote, files, ncalls, hist, snapVars, runVars>>
\* Rename with a fault: the file is moved by a copy that loses the xattrs
RenameUntagged(p) ==
    /\ fetch[p].pc = "rename"
    /\ files' = [files EXCEPT ![fetch[p].path] =
                     [fetch[p].tmp EXCEPT !.url = PyNone, !.date = PyNone]]
    /\ fetch' = [fetch EXCEPT ![p].tmp = NoFile,
                              ![p].ret = Returned(fetch[p].path),
                              ![p].pc = "done"]
    /\ UNCHANGED <<remote, orphans, ncalls, hist, snapVars, runVars>>
\* os.rename(image_tempfile.name, path); return path
Rename(p) ==
    /\ fetch[p].pc = "rename"
    /\ files' = [files EXCEPT ![fetch[p].path] = fetch[p].tmp]
    /\ fetch' = [fetch EXCEPT ![p].tmp = NoFile,
                              ![p].ret = Returned(fetch[p].path),
                              ![p].pc = "done"]
    /\ UNCHANGED <<remote, orphans, ncalls, hist, snapVars, runVars>>
\* what is remembered of a call: its arguments, its result, the header it
\* read, its body transfers, and whether it found a file at the target path
CallRecord(f) ==
    [url |-> f.url, label |-> f.label, ret |-> f.ret, xfers |-> f.xfers,
     lmSrc |-> f.lmSrc, headOk |-> f.headOk, hadFile |-> f.pre.exists]

NoCall == CallRecord(IdleFetch)

\* the caller takes the result; the call joins the history
FetchReturn(p) ==
    /\ fetch[p].pc = "done"
    /\ hist' = CallRecord(fetch[p])
    /\ fetch' = [fetch EXCEPT ![p] = IdleFetch]
    /\ UNCHANGED <<remote, files, orphans, ncalls, snapVars, runVars>>
\* the origin publishes a new image (or starts or stops sending the header)
RemoteChange(url, value) ==
    /\ remote[url] # value
    /\ remote' = [remote EXCEPT ![url] = value]
    /\ UNCHANGED <<files, orphans, fetch, ncalls, hist, snapVars, runVars>>

(***************************** get_url **************************************)

\* s if it ends with "/", s + "/" otherwise, for the strings of the model
WithSlash(s) ==
    CASE s = "http://x" -> "http://x/"
      [] s = "http://y/centos/9-stream" -> "http://y/centos/9-stream/"
      [] s = "http://y/centos/7" -> "http://y/centos/7/"
      [] s = "http://w" -> "http://w/"
      [] OTHER -> s

\* the images a compose lists: relative path, variant, subvariant,
\* architecture and type of each
ComposeEntries ==
    { [path |-> <<"f34", ".qcow2">>, variant |-> "Cloud",
       subvariant |-> "Base", arch |-> "x86_64", type |-> "qcow2"],
      [path |-> <<"f34-server", ".qcow2">>, variant |-> "Server",
       subvariant |-> "Base", arch |-> "x86_64", type |-> "qcow2"],
      [path |-> <<"f34-mini", ".qcow2">>, variant |-> "Cloud",
       subvariant |-> "Mini", arch |-> "x86_64", type |-> "qcow2"],
      [path |-> <<"f34", ".raw">>, variant |-> "Cloud",
       subvariant |-> "Base", arch |-> "x86_64", type |-> "raw"],
      [path |-> <<"f34-arm", ".qcow2">>, variant |-> "Cloud",
       subvariant |-> "Base", arch |-> "aarch64", type |-> "qcow2"] }

\* the hints a descriptor can give (None: no hint)
VariantHints == { PyNone, <<"Cloud">>, <<"Server">>, <<"Workstation">> }

SubvariantHints == { PyNone, <<"Base">>, <<"Mini">> }

ComposeUrls == { <<"http://x">>, <<"http://x/">> }

\* the (image, variant, subvariant) triples of the wanted architecture and
\* of type qcow2: lines 198-205
Candidates(images, desiredarch) ==
    { e \in images : e.arch = desiredarch /\ e.type = "qcow2" }

\* NarrowByVariant with a fault: a hint that matches nothing empties the set
NarrowByVariantStrict(candidates, desiredvariant) ==
    IF Cardinality(candidates) > 1 /\ desiredvariant # PyNone
    THEN { e \in candidates : <<e.variant>> = desiredvariant }
    ELSE candidates

\* lines 209-217: with more than one candidate and a hint, the candidates
\* of that variant if there are any
NarrowByVariant(candidates, desiredvariant) ==
    IF Cardinality(candidates) > 1 /\ desiredvariant # PyNone
    THEN LET variantmatch ==
                 { e \in candidates : <<e.variant>> = desiredvariant }
         IN  IF Cardinality(variantmatch) > 0
             THEN variantmatch ELSE candidates
    ELSE candidates

\* lines 218-226: the same for the subvariant hint
NarrowBySubvariant(candidates, desiredsubvariant) ==
    IF Cardinality(candidates) > 1 /\ desiredsubvariant # PyNone
    THEN LET subvariantmatch ==
                 { e \in candidates : <<e.subvariant>> = desiredsubvariant }
         IN  IF Cardinality(subvariantmatch) > 0
             THEN subvariantmatch ELSE candidates
    ELSE candidates

\* the candidates composeurl2images is left with
Narrowed(images, desiredarch, desiredvariant, desiredsubvariant) ==
    NarrowBySubvariant(
        NarrowByVariant(Candidates(images, desiredarch), desiredvariant),
        desiredsubvariant)

\* composeurl2images: the URLs of the candidates left (the list that the
\* function returns has no defined order and is modelled as a set)
composeurl2images(composeurl, images, desiredarch, desiredvariant, desiredsubvariant) ==
    { <<WithSlash(composeurl[1])>> \o e.path :
        e \in Narrowed(images, desiredarch, desiredvariant,
                       desiredsubvariant) }

\* what productmd reads at a compose URL
ComposeImages(composeurl) ==
    CASE composeurl = <<"http://x">> ->
             { e \in ComposeEntries : e.path[1] \in {"f34", "f34-server"} }
      [] composeurl = <<"http://x/">> ->
             { e \in ComposeEntries : e.path = <<"f34", ".qcow2">> }
      [] composeurl \in { <<"http://w">>, <<"http://w/">> } -> ComposeEntries
      [] OTHER -> {}

\* a link of an index page.  form "release" is a name
\* CentOS-Stream-GenericCloud-<ver>-<date>.<arch><ext>, form "literal" is
\* the name CentOS-Stream-GenericCloud-%s-(<date>).%s<ext>, form "other" is
\* any other name.  date stands for the version-date token: tokens have the
\* same length and compare as these numbers do.
NoHref == [form |-> "other", ver |-> 0, date |-> 0, arch |-> "",
           ext |-> ""]

Hrefs ==
    { [form |-> "release", ver |-> 9, date |-> 1, arch |-> "x86_64",
       ext |-> ".qcow2"],
      [form |-> "release", ver |-> 9, date |-> 2, arch |-> "x86_64",
       ext |-> ".qcow2"],
      [form |-> "release", ver |-> 9, date |-> 3, arch |-> "aarch64",
       ext |-> ".qcow2"],
      [form |-> "literal", ver |-> 9, date |-> 1, arch |-> "x86_64",
       ext |-> ".qcow2"],
      NoHref }

\* index pages: the href of each table cell, in page order
HtmlPages == UNION { [1..n -> Hrefs] : n \in 0..MaxPage }

HtmlUrls == { <<"http://y/centos/9-stream">>, <<"http://y/centos/7">> }

\* a centoshtml2image call that has not been made; its page is what the
\* server has
NoHtml == [url |-> <<"http://y/centos/9-stream">>,
           page |-> << [form |-> "release", ver |-> 9, date |-> 1,
                        arch |-> "x86_64", ext |-> ".qcow2"],
                       NoHref,
                       [form |-> "release", ver |-> 9, date |-> 2,
                        arch |-> "x86_64", ext |-> ".qcow2"] >>,
           out |-> PyNone, done |-> FALSE]

\* urllib.request.urlopen(url).read(): the page the server has
CentosPage(url) == hq.page

\* path.find("/centos/9-stream/") > -1, path.find("/centos/8-stream/") > -1
CentosVersion(path) ==
    CASE path = "http://y/centos/9-stream/" -> 9
      [] path = "http://y/centos/8-stream/" -> 8
      [] OTHER -> 0

\* the groups of the compiled pattern: its two parentheses are escaped
PatternGroups == 0

\* namematch.match(imagename): pat.format() leaves the pattern as it is (it
\* has no braces), so it asks for a literal "%s" where the version and the
\* architecture would be and for a date in parentheses
namematch(h, centosver, desiredarch) == h.form = "literal" /\ h.ext = ".qcow2"

\* getdatekey: group 1 of a match that has groups, else "" (0 here, below
\* every date)
getdatekey(h, centosver, desiredarch) ==
    IF namematch(h, centosver, desiredarch) /\ PatternGroups > 0
    THEN h.date
    ELSE 0

\* sorted(imagelist, key=getdatekey)[-1]: the sort is stable, so this is the
\* last of the elements with the greatest key
SortedLast(imagelist, centosver, desiredarch) ==
    LET key(i) == getdatekey(imagelist[i], centosver, desiredarch)
        top == { i \in 1..Len(imagelist) :
                   \A j \in 1..Len(imagelist) : key(j) <= key(i) }
    IN  imagelist[CHOOSE i \in top : \A j \in top : j <= i]

\* centoshtml2image: "" for an unknown version; else the path and the link
\* chosen among those that end in ".qcow2".  An empty list raises
\* IndexError.
centoshtml2image(url, desiredarch) ==
    LET path == WithSlash(url[1])
        centosver == CentosVersion(path)
        page == CentosPage(url)
        imagelist == SelectSeq(page, LAMBDA h : h.ext = ".qcow2")
    IN  IF centosver = 0
        THEN EmptyStr
        ELSE IF imagelist = <<>>
             THEN <<"IndexError">>
             ELSE LET candidate ==
                          SortedLast(imagelist, centosver, desiredarch)
                  IN  <<path, candidate, candidate.ext>>

\* centoshtml2image(url, "x86_64") returns
HtmlResolve ==
    /\ ~hq.done
    /\ hq' = [hq EXCEPT !.out = centoshtml2image(hq.url, "x86_64"),
                        !.done = TRUE]
    /\ UNCHANGED <<run, docs, nruns, cq, gq, mq, aq, fetchVars, snapVars>>

\* an image descriptor: the keys the program reads (None: the key is absent)
NoImage == [name |-> "f34", file |-> PyNone, source |-> PyNone,
            compose |-> PyNone, variant |-> PyNone, subvariant |-> PyNone,
            centoshtml |-> PyNone,
            setup |-> "absent"]

\* get_url with a fault: the first of several candidates is taken
get_urlFirst(descr) ==
    IF descr.source # PyNone
    THEN descr.source
    ELSE IF descr.compose # PyNone
    THEN LET image_urls ==
                 composeurl2images(descr.compose,
                                   ComposeImages(descr.compose), "x86_64",
                                   descr.variant, PyNone)
         IN  IF Cardinality(image_urls) >= 1
             THEN CHOOSE u \in image_urls : TRUE
             ELSE PyNone
    ELSE IF descr.centoshtml # PyNone
    THEN centoshtml2image(descr.centoshtml, "x86_64")
    ELSE PyNone

\* get_url: the source, or the one image of the compose, or the image of the
\* CentOS page; None when the compose has no image or several, or when the
\* descriptor names none of the three
get_url(descr) ==
    IF descr.source # PyNone
    THEN descr.source
    ELSE IF descr.compose # PyNone
    THEN LET image_urls ==
                 composeurl2images(descr.compose,
                                   ComposeImages(descr.compose), "x86_64",
                                   descr.variant, PyNone)
         IN  IF Cardinality(image_urls) = 1
             THEN CHOOSE u \in image_urls : TRUE
             ELSE PyNone
    ELSE IF descr.centoshtml # PyNone
    THEN centoshtml2image(descr.centoshtml, "x86_64")
    ELSE PyNone

\* "not image_url" in download_image
Falsy(value) == value = PyNone \/ value = EmptyStr

\* the descriptors get_url is asked about: composes with every pair of
\* hints, a source URL, a CentOS page, and a descriptor that names no origin
GetComposeUrls == { <<"http://x">>, <<"http://x/">>, <<"http://w">>,
                    <<"http://w/">>, <<"http://z">> }

GetDescriptors ==
    { [NoImage EXCEPT !.compose = u, !.variant = v, !.subvariant = sv] :
        u \in GetComposeUrls, v \in VariantHints, sv \in SubvariantHints }
    \cup { [NoImage EXCEPT !.source = <<"http://x/", "f34", ".qcow2">>,
                           !.compose = <<"http://w">>],
           [NoImage EXCEPT !.centoshtml = <<"http://y/centos/9-stream">>],
           [NoImage EXCEPT !.centoshtml = <<"http://y/centos/7">>],
           NoImage }

\* a get_url call that has not been made
NoGet == [descr |-> NoImage, url |-> PyNone, done |-> FALSE]

\* get_url(image) returns
GetUrlResolve ==
    /\ ~gq.done
    /\ gq' = [gq EXCEPT !.url = get_url(gq.descr), !.done = TRUE]
    /\ UNCHANGED <<run, docs, nruns, cq, hq, mq, aq, fetchVars, snapVars>>

\* a composeurl2images call that has not been made
NoQuery == [composeurl |-> <<"http://x">>, images |-> {},
            variant |-> PyNone, subvariant |-> PyNone,
            byvariant |-> {}, left |-> {}, out |-> {}, done |-> FALSE]

\* composeurl2images(composeurl, "x86_64", variant, subvariant) returns
ComposeResolve ==
    /\ ~cq.done
    /\ cq' = [cq EXCEPT
          !.byvariant = NarrowByVariant(Candidates(cq.images, "x86_64"),
                                        cq.variant),
          !.left = Narrowed(cq.images, "x86_64", cq.variant, cq.subvariant),
          !.out = composeurl2images(cq.composeurl, cq.images, "x86_64",
                                    cq.variant, cq.subvariant),
          !.done = TRUE]
    /\ UNCHANGED <<run, docs, nruns, gq, hq, mq, aq, fetchVars, snapVars>>

(***************************** runqemu **************************************)

\* a path is its directory part followed by the pieces of its basename, a
\* dot being a piece of its own: os.path.basename
basename(path) == Tail(path)

\* os.path.splitext(b)[1]: the last dot and what follows it, unless nothing
\* but dots comes before it
splitext(b) ==
    LET dots == { i \in 1..Len(b) : b[i] = "." }
        sep == IF dots = {} THEN 0
               ELSE CHOOSE i \in dots : \A j \in dots : j <= i
    IN  IF sep > 0 /\ \E i \in 1..(sep - 1) : b[i] # "."
        THEN SubSeq(b, sep, Len(b))
        ELSE <<>>

\* ValidName with a fault: every name is accepted
ValidNameAny(b) == TRUE

\* lines 839-840: the basename is "inventory" or its extension is ".yml"
ValidName(b) == b = <<"inventory">> \/ splitext(b) = <<".", "yml">>

\* os.path.abspath of a path of the model
abspath(path) ==
    IF path[1] \in {"/cache/", "/cwd/"} THEN path ELSE <<"/cwd/">> \o path

\* test_env.update(dict(os.environ))
Update(test_env, environ) ==
    [k \in DOMAIN test_env |->
        IF environ[k] # PyNone THEN environ[k] ELSE test_env[k]]

\* lines 671-681: what comes before "--" are arguments of the runner, the
\* rest (or everything, without a "--") are playbooks
RECURSIVE SplitFrom(_, _, _, _)
SplitFrom(ansible_args, toPlaybooks, local, playbooks) ==
    IF ansible_args = <<>>
    THEN [local_ansible_args |-> local, playbooks |-> playbooks]
    ELSE LET item == Head(ansible_args) IN
         IF item = <<"--">>
         THEN SplitFrom(Tail(ansible_args), TRUE, local, playbooks)
         ELSE IF toPlaybooks
              THEN SplitFrom(Tail(ansible_args), toPlaybooks, local,
                             Append(playbooks, item))
              ELSE SplitFrom(Tail(ansible_args), toPlaybooks,
                             Append(local, item), playbooks)

\* SplitArgs with a fault: without a "--" the items are taken for arguments
\* of the runner
SplitArgsNoDefault(ansible_args) ==
    SplitFrom(ansible_args, FALSE, <<>>, <<>>)

SplitArgs(ansible_args) ==
    SplitFrom(ansible_args,
              ~(\E i \in 1..Len(ansible_args) : ansible_args[i] = <<"--">>),
              <<>>, <<>>)

\* the remaining command-line arguments the split is asked about
ArgItems == { <<"-v">>, <<"--">>, <<"a.yml">>, <<"b.yml">> }

ArgSeqs == UNION { [1..n -> ArgItems] : n \in 0..MaxArgs }

\* a split that has not been made
NoSplit == [ansible_args |-> <<>>, local_ansible_args |-> <<>>,
            playbooks |-> <<>>, done |-> FALSE]

\* lines 671-681 run on aq.ansible_args
SplitCall ==
    /\ ~aq.done
    /\ LET split == SplitArgs(aq.ansible_args)
       IN  aq' = [aq EXCEPT
                     !.local_ansible_args = split.local_ansible_args,
                     !.playbooks = split.playbooks,
                     !.done = TRUE]
    /\ UNCHANGED <<run, docs, nruns, cq, gq, hq, mq, fetchVars, snapVars>>

\* the tasks make_setup_yml knows, by name
CloudInitTasks == <<"get cloud-init requires", "remove cloud-init",
                    "get deps for each cloud-init req",
                    "remove packages that were required only by cloud-init">>

CacheTasks == <<"Create EPEL repo", "Create yum cache", "Create dnf cache",
                "Disable EPEL 7", "Disable EPEL 8">>

\* the two tasks of the post-setup play: a key that a task does not have
\* is None
SyncTask == [name |-> "force sync of filesystems", command |-> "sync",
             async |-> PyNone, poll |-> PyNone]

ShutdownTask == [name |-> "shutdown guest", command |-> "shutdown now",
                 async |-> <<60>>, poll |-> <<0>>]

PostPlay == [name |-> "Post setup - these happen last",
             gather_facts |-> FALSE,
             tasks |-> <<SyncTask, ShutdownTask>>]

\* the plays of a descriptor whose "setup" is a list
ImagePlays == << [name |-> "image setup", gather_facts |-> FALSE,
                  tasks |-> <<"image task">>] >>

\* PostWanted with a fault: the post-setup play is made for the package
\* cache as well
PostWantedWithCache(use_snapshot, use_yum_cache) ==
    use_snapshot \/ use_yum_cache

\* lines 358 and 424: the post-setup play is appended under both ifs
PostWanted(use_snapshot, use_yum_cache) ==
    (use_snapshot \/ use_yum_cache) /\ use_snapshot

\* make_setup_yml: the plays of the two documents (empty: the document is
\* not written, and removed if it is there)
make_setup_yml(descr, remove_cloud_init, use_snapshot, use_yum_cache) ==
    LET raw == IF descr.setup = "str" THEN <<"raw">> ELSE <<>>
        plays == IF descr.setup = "list" THEN ImagePlays ELSE <<>>
        tasks == raw
                 \o (IF remove_cloud_init THEN CloudInitTasks ELSE <<>>)
                 \o (IF use_snapshot \/ use_yum_cache
                     THEN CacheTasks ELSE <<>>)
        setup_play == [name |-> "Set up host for test playbooks",
                       gather_facts |-> (use_snapshot \/ use_yum_cache),
                       tasks |-> tasks]
    IN  [pre |-> IF plays # <<>>
                 THEN IF tasks # <<>>
                      THEN Append(plays, setup_play) ELSE plays
                 ELSE <<>>,
         post |-> IF PostWanted(use_snapshot, use_yum_cache)
                  THEN <<PostPlay>> ELSE <<>>]

\* os.path.join(cache, image["name"] + "_setup.yml") and "_post_setup.yml"
PreSetupPath == <<"/cache/", "f34_setup.yml">>

PostSetupPath == <<"/cache/", "f34_post_setup.yml">>

NoDocs == [pre |-> <<>>, post |-> <<>>]

\* WriteDocs with a fault: a document that is not written stays as it was
WriteDocsKeepStale(old, made) ==
    [pre |-> IF made.pre # <<>> THEN made.pre ELSE old.pre,
     post |-> IF made.post # <<>> THEN made.post ELSE old.post]

\* lines 449-464: each document is written if it has plays and removed if
\* it has none
WriteDocs(old, made) == [pre |-> made.pre, post |-> made.post]

\* line 465 with 457 and 464: the path of each document written, else None
SetupPaths(made) ==
    [pre |-> IF made.pre # <<>> THEN PreSetupPath ELSE PyNone,
     post |-> IF made.post # <<>> THEN PostSetupPath ELSE PyNone]

\* what image["setup"] can be: not there, a string, a list of plays
SetupKinds == { "absent", "str", "list" }

\* a make_setup_yml call that has not been made; n counts the calls
NoMake == [descr |-> NoImage, remove_cloud_init |-> FALSE,
           use_snapshot |-> FALSE, use_yum_cache |-> FALSE,
           before |-> NoDocs, ret |-> [pre |-> PyNone, post |-> PyNone],
           n |-> 0]

\* make_setup_yml(image, cache, remove_cloud_init, use_snapshot,
\* use_yum_cache) runs on the cache directory as the call before left it
MakeSetupYml(setup, remove_cloud_init, use_snapshot, use_yum_cache) ==
    /\ mq.n < MaxMakes
    /\ LET descr == [NoImage EXCEPT !.setup = setup]
           made == make_setup_yml(descr, remove_cloud_init, use_snapshot,
                                  use_yum_cache)
       IN  /\ docs' = WriteDocs(docs, made)
           /\ mq' = [descr |-> descr,
                     remove_cloud_init |-> remove_cloud_init,
                     use_snapshot |-> use_snapshot,
                     use_yum_cache |-> use_yum_cache,
                     before |-> docs, ret |-> SetupPaths(made),
                     n |-> mq.n + 1]
    /\ UNCHANGED <<run, nruns, cq, gq, hq, aq, fetchVars, snapVars>>

\* the arguments of runqemu that the model varies
NoConfig == [image |-> NoImage, write_inventory |-> PyNone,
             use_snapshot |-> FALSE, erase_old_snapshot |-> FALSE,
             wait_on_qemu |-> FALSE, remove_cloud_init |-> FALSE,
             use_yum_cache |-> FALSE, debug |-> FALSE,
             setup_yml |-> <<>>,
             ansible_args |-> <<>>, environ |-> NoEnv]

\* the descriptors: a local file, a source URL, composes with two images
\* (told apart by the hint or not) and with none, and a descriptor that
\* names no origin
Images ==
    { [NoImage EXCEPT !.file = ImageFile],
      [NoImage EXCEPT !.source = <<"http://x/", "f34", ".qcow2">>,
                      !.setup = "list"],
      [NoImage EXCEPT !.compose = <<"http://x">>],
      [NoImage EXCEPT !.compose = <<"http://x">>, !.variant = <<"Cloud">>],
      [NoImage EXCEPT !.compose = <<"http://z">>],
      NoImage }

WriteInventories ==
    { PyNone, <<"out/", "inventory">>, <<"out/", "hosts", ".", "yml">>,
      <<"out/", "hosts", ".", "ini">> }

ArgLists == { << <<"-v">>, <<"--">>, <<"tests.yml">> >> }

Environs == { NoEnv }

\* the conditioning playbooks the caller passes (setup_yml; None is [])
CallerSetups == { << <<"extra.yml">> >> }

\* what the caller's os.environ can hold of the keys of the model
CallerEnvirons ==
    { [NoEnv EXCEPT !.TEST_WRITE_TO_IMAGE = <<"True">>,
                    !.TEST_ARTIFACTS = <<"logs">>] }

\* the calls without conditioning playbooks of the caller, calls with some
\* for the descriptors that have an image, and calls on the image file with
\* debugging asked for or with an environment of the caller's
Configs ==
    { [NoConfig EXCEPT !.image = i, !.write_inventory = w,
                       !.use_snapshot = us, !.erase_old_snapshot = e,
                       !.wait_on_qemu = wq, !.ansible_args = a,
                       !.environ = env] :
        i \in Images, w \in WriteInventories, us \in BOOLEAN,
        e \in BOOLEAN, wq \in BOOLEAN, a \in ArgLists, env \in Environs }
    \cup
    { [NoConfig EXCEPT !.image = i, !.use_snapshot = us, !.setup_yml = sy,
                       !.ansible_args = a] :
        i \in { d \in Images : d.file # PyNone \/ d.source # PyNone },
        us \in BOOLEAN, sy \in CallerSetups, a \in ArgLists }
    \cup
    { [NoConfig EXCEPT !.image = [NoImage EXCEPT !.file = ImageFile],
                       !.use_snapshot = us, !.debug = d, !.environ = env,
                       !.ansible_args = a] :
        us \in BOOLEAN, d \in BOOLEAN, env \in Environs \cup CallerEnvirons,
        a \in ArgLists }

\* the process that runs runqemu
Self == CHOOSE p \in Procs : TRUE

\* the fetch_image call of download_image if its transfer failed: the kind
\* of result and the body transfers made
NoFetched == [kind |-> "pending", xfers |-> 0, copyFailed |-> FALSE]

\* phases and refreshed are the record of the call: the phases begun so
\* far, and how refresh_snapshot ended
IdleRunqemu == [pc |-> "idle", a |-> NoConfig, file |-> PyNone,
                setup_yml |-> <<>>, playbooks |-> <<>>,
                local_ansible_args |-> <<>>, test_env |-> NoEnv,
                ret |-> "pending", failed |-> NoFetched,
                old |-> "none", phases |-> <<>>, refreshed |-> "none"]

\* runqemu(image, cache, inventory, ...) is called
RunqemuCall(config) ==
    /\ run.pc = "idle"
    /\ rs.pc = "idle"
    /\ ir.pc = "idle"
    /\ fetch[Self].pc = "idle"
    /\ nruns < MaxRuns
    /\ nruns' = nruns + 1
    /\ run' = [IdleRunqemu EXCEPT !.pc = "validate", !.a = config,
                                  !.file = config.image.file]
    /\ UNCHANGED <<docs, queryVars, fetchVars, snapVars>>

\* lines 838-847: a write_inventory whose name is not valid raises
Validate ==
    /\ run.pc = "validate"
    /\ IF /\ run.a.write_inventory # PyNone
          /\ ~ValidName(basename(run.a.write_inventory))
       THEN run' = [run EXCEPT !.ret = "raise", !.pc = "done"]
       ELSE run' = [run EXCEPT !.pc = "download"]
    /\ UNCHANGED <<docs, nruns, queryVars, fetchVars, snapVars>>

\* download_image, lines 496-503: nothing to do for a descriptor with a
\* file; else get_url, an exception if it gives no URL, else fetch_image
Download ==
    /\ run.pc = "download"
    /\ IF run.file # PyNone
       THEN /\ run' = [run EXCEPT !.phases = Append(@, "image"),
                                  !.pc = "setup"]
            /\ fetch' = fetch
       ELSE LET image_url == get_url(run.a.image) IN
            IF Falsy(image_url) \/ image_url = <<"IndexError">>
            THEN /\ run' = [run EXCEPT !.phases = Append(@, "image"),
                                       !.ret = "raise", !.pc = "done"]
                 /\ fetch' = fetch
            ELSE /\ run' = [run EXCEPT !.phases = Append(@, "image"),
                                       !.pc = "fetch"]
                 /\ fetch' = [fetch EXCEPT ![Self] =
                                  FetchEntry(image_url, run.a.image.name)]
    /\ UNCHANGED <<remote, files, orphans, ncalls, hist, docs, nruns, queryVars,
                   snapVars>>

\* AfterFetch with a fault: a None from fetch_image is not checked
AfterFetchUnchecked(ret) == IF ret.kind = "raise" THEN "raise" ELSE "setup"

\* lines 503-509: a path lets download_image go on; None makes it raise; an
\* exception of fetch_image passes through
AfterFetch(ret) == IF ret.kind = "path" THEN "setup" ELSE "raise"

\* what is remembered of a fetch_image call f whose transfer failed
Taken(f) ==
    IF f.copyFailed
    THEN [kind |-> f.ret.kind, xfers |-> f.xfers, copyFailed |-> TRUE]
    ELSE NoFetched

\* fetch_image has returned to download_image, lines 503-509.  The image
\* file has the change time of the rename if there was one.
Fetched ==
    /\ run.pc = "fetch"
    /\ fetch[Self].pc = "done"
    /\ IF AfterFetch(fetch[Self].ret) = "setup"
       THEN /\ run' = [run EXCEPT !.file = fetch[Self].ret.path,
                                  !.failed = Taken(fetch[Self]),
                                  !.pc = "setup"]
            /\ image' = IF fetch[Self].xfers > 0
                        THEN [ctime |-> now] ELSE image
       ELSE /\ run' = [run EXCEPT !.failed = Taken(fetch[Self]),
                                  !.ret = "raise", !.pc = "done"]
            /\ image' = image
    /\ fetch' = [fetch EXCEPT ![Self] = IdleFetch]
    /\ UNCHANGED <<remote, files, orphans, ncalls, hist, docs, nruns, queryVars,
                   now, snap, lock, guest, rs, ir, nticks, nrefresh>>

\* ConditioningList with a fault: the post-setup document is put in front
\* of the caller's playbooks
ConditioningListPostEarly(paths, setup_yml) ==
    (IF paths.pre # PyNone THEN <<paths.pre>> ELSE <<>>)
    \o (IF paths.post # PyNone THEN <<paths.post>> ELSE <<>>)
    \o setup_yml

\* lines 852-857: setup_yml.insert(0, pre_setup_yml) and
\* setup_yml.append(post_setup_yml), each if the document was written
ConditioningList(paths, setup_yml) ==
    (IF paths.pre # PyNone THEN <<paths.pre>> ELSE <<>>)
    \o setup_yml
    \o (IF paths.post # PyNone THEN <<paths.post>> ELSE <<>>)

\* lines 849-857: make_setup_yml writes or removes the two documents; the
\* ones written go to the two ends of the conditioning list
MakeSetup ==
    /\ run.pc = "setup"
    /\ LET made == make_setup_yml(run.a.image, run.a.remove_cloud_init,
                                  run.a.use_snapshot, run.a.use_yum_cache)
       IN  /\ docs' = WriteDocs(docs, made)
           /\ run' = [run EXCEPT
                 !.setup_yml = ConditioningList(SetupPaths(made),
                                                run.a.setup_yml),
                 !.phases = Append(@, "scripts"),
                 !.pc = "enter"]
    /\ UNCHANGED <<nruns, queryVars, fetchVars, snapVars>>

\* EraseSnapshot with a fault: the old snapshot is never removed
EraseSnapshotNever(s, erase_old_snapshot) == s

\* lines 691-692: the snapshot file after the erase
EraseSnapshot(s, erase_old_snapshot) ==
    IF erase_old_snapshot /\ s.exists THEN NoSnap ELSE s

\* the snapshot that os.path.exists(snapfile) looks at: none, or one that
\* refresh_snapshot would find fresh or stale
OldSnapshot(s) ==
    IF ~s.exists
    THEN "none"
    ELSE IF NeedRefresh(s, image.ctime, now) THEN "stale" ELSE "fresh"

\* lines 858-692: the environment of the run, the split of the arguments,
\* absolute paths, and the erase of the old snapshot; without a playbook
\* playbooks[0] raises IndexError
Enter ==
    /\ run.pc = "enter"
    /\ LET env0 == [NoEnv EXCEPT
                       !.TEST_SUBJECTS = run.file,
                       !.TEST_DEBUG = IF run.a.debug
                                      THEN <<"true">> ELSE PyNone]
           env1 == Update(env0, run.a.environ)
           env2 == [env1 EXCEPT !.TEST_ARTIFACTS =
                       abspath(IF @ = PyNone THEN <<"artifacts">> ELSE @)]
           split == SplitArgs(run.a.ansible_args)
           playbooks == [i \in 1..Len(split.playbooks) |->
                            abspath(split.playbooks[i])]
       IN  IF playbooks = <<>>
           THEN /\ run' = [run EXCEPT !.test_env = env2, !.ret = "raise",
                                      !.pc = "done"]
                /\ snap' = snap
           ELSE /\ run' = [run EXCEPT
                      !.test_env = env2,
                      !.local_ansible_args = split.local_ansible_args,
                      !.playbooks = playbooks,
                      !.setup_yml = [i \in 1..Len(run.setup_yml) |->
                                        abspath(run.setup_yml[i])],
                      !.old = OldSnapshot(snap),
                      !.pc = "branch"]
                /\ snap' = EraseSnapshot(snap, run.a.erase_old_snapshot)
    /\ UNCHANGED <<docs, nruns, queryVars, fetchVars, now, image, lock, guest, rs,
                   ir, nticks, nrefresh>>

\* SnapshotSubject with a fault: the subject stays the image file
SnapshotSubjectKept(test_env, snapfile) == test_env

\* line 694: test_env["TEST_SUBJECTS"] = snapfile
SnapshotSubject(test_env, snapfile) ==
    [test_env EXCEPT !.TEST_SUBJECTS = snapfile]

\* FinalPlaybooks with a fault: the assignment is not under the else
FinalPlaybooksAlways(use_snapshot, setup_yml, playbooks) ==
    setup_yml \o playbooks

\* lines 693-706: playbooks = setup_yml + playbooks in the else branch of
\* "if use_snapshot"
FinalPlaybooks(use_snapshot, setup_yml, playbooks) ==
    IF use_snapshot THEN playbooks ELSE setup_yml \o playbooks

\* lines 693-706: with use_snapshot the snapshot becomes the subject and
\* refresh_snapshot is called; without it the conditioning playbooks go in
\* front of the test playbooks
Branch ==
    /\ run.pc = "branch"
    /\ IF run.a.use_snapshot
       THEN LET env == SnapshotSubject(run.test_env, SnapFile(run.file)) IN
            /\ run' = [run EXCEPT
                  !.test_env = env,
                  !.playbooks = FinalPlaybooks(TRUE, run.setup_yml, @),
                  !.phases = Append(@, "refresh"),
                  !.pc = "refresh"]
            /\ rs' = RefreshEntry(env, run.setup_yml)
       ELSE /\ run' = [run EXCEPT
                  !.playbooks = FinalPlaybooks(FALSE, run.setup_yml, @),
                  !.pc = "final"]
            /\ rs' = rs
    /\ UNCHANGED <<docs, nruns, queryVars, fetchVars, now, image, snap, lock, guest,
                   ir, nticks, nrefresh>>

\* AfterRefresh with a fault: an exception of refresh_snapshot is swallowed
AfterRefreshSwallowed(ret) == "final"

\* lines 695-707: nothing catches an exception of refresh_snapshot, so the
\* statements after the call run only if it returned
AfterRefresh(ret) == IF ret = "ok" THEN "final" ELSE "raise"

\* refresh_snapshot has returned to run_ansible_playbooks, or its exception
\* passes through; test_env is the dict that was passed to it
Refreshed ==
    /\ run.pc = "refresh"
    /\ rs.pc = "done"
    /\ IF AfterRefresh(rs.ret) = "final"
       THEN run' = [run EXCEPT !.test_env = rs.test_env,
                               !.refreshed = rs.ret, !.pc = "final"]
       ELSE run' = [run EXCEPT !.test_env = rs.test_env,
                               !.refreshed = rs.ret, !.ret = "raise",
                               !.pc = "done"]
    /\ rs' = IdleRefresh
    /\ UNCHANGED <<docs, nruns, queryVars, fetchVars, now, image, snap, lock, guest,
                   ir, nticks, nrefresh>>

\* lines 707-716: TEST_INVENTORY if asked for, and the test run
Final ==
    /\ run.pc = "final"
    /\ ir.pc = "idle"
    /\ LET env == IF run.a.write_inventory # PyNone
                  THEN [run.test_env EXCEPT
                           !.TEST_INVENTORY = run.a.write_inventory]
                  ELSE run.test_env
       IN  /\ run' = [run EXCEPT !.test_env = env,
                                 !.phases = Append(@, "test"),
                                 !.pc = "test"]
           /\ ir' = RunEntry("final", env, run.playbooks,
                             run.a.wait_on_qemu)
    /\ UNCHANGED <<docs, nruns, queryVars, fetchVars, now, image, snap, lock, guest,
                   rs, nticks, nrefresh>>

\* internal_run_ansible_playbooks has returned to run_ansible_playbooks, or
\* its exception passes through
Finished ==
    /\ run.pc = "test"
    /\ ir.pc = "done"
    /\ ir.site = "final"
    /\ run' = [run EXCEPT !.ret = ir.ret, !.pc = "done"]
    /\ ir' = IdleRun
    /\ UNCHANGED <<docs, nruns, queryVars, fetchVars, now, image, snap, lock, guest,
                   rs, nticks, nrefresh>>

\* runqemu is over
RunqemuReturn ==
    /\ run.pc = "done"
    /\ run' = IdleRunqemu
    /\ UNCHANGED <<docs, nruns, queryVars, fetchVars, snapVars>>

(**************************** specifications ********************************)

\* the snapshot manager before any use: the image is there, no snapshot
InitSnapIdle ==
    /\ now = 0
    /\ image = [ctime |-> 0]
    /\ snap = NoSnap
    /\ lock = NoLock
    /\ guest = NoGuest
    /\ rs = IdleRefresh
    /\ ir = IdleRun
    /\ nticks = 0
    /\ nrefresh = 0

\* no runqemu call yet, no conditioning documents in the cache directory
InitRunIdle ==
    /\ run = IdleRunqemu
    /\ docs = NoDocs
    /\ nruns = 0
    /\ cq = NoQuery
    /\ gq = NoGet
    /\ hq = NoHtml
    /\ mq = NoMake
    /\ aq = NoSplit

InitFetch ==
    /\ remote \in [URLs -> HeaderValues]
    /\ files = [path \in Paths |-> NoFile]
    /\ orphans = {}
    /\ fetch = [p \in Procs |-> IdleFetch]
    /\ ncalls = 0
    /\ hist = NoCall

Init == InitFetch /\ InitSnapIdle /\ InitRunIdle

Next ==
    \/ \E p \in Procs, url \in URLs, label \in Labels : FetchCall(p, url, label)
    \/ \E p \in Procs : GetHeader(p)
    \/ \E p \in Procs : GetHeaderFail(p)
    \/ \E p \in Procs : Stat(p)
    \/ \E p \in Procs : Decide(p)
    \/ \E p \in Procs : MkTemp(p)
    \/ \E p \in Procs : Copy(p)
    \/ \E p \in Procs : CopyFail(p)
    \/ \E p \in Procs : Except(p)
    \/ \E p \in Procs : SetUrl(p)
    \/ \E p \in Procs : SetDate(p)
    \/ \E p \in Procs : Rename(p)
    \/ \E p \in Procs : FetchReturn(p)
    \/ \E url \in URLs, value \in HeaderValues : RemoteChange(url, value)

Spec == Init /\ [][Next]_vars

\* the image cache at rest (the backing image of the snapshot manager is
\* the variable image)
InitFetchIdle ==
    /\ remote = [url \in URLs |-> <<"Mon">>]
    /\ files = [path \in Paths |-> NoFile]
    /\ orphans = {}
    /\ fetch = [p \in Procs |-> IdleFetch]
    /\ ncalls = 0
    /\ hist = NoCall

InitSnap == InitFetchIdle /\ InitSnapIdle /\ InitRunIdle

NextSnap ==
    \/ \E test_env \in TestEnvs, setup_yml \in SetupLists :
          RefreshCall(test_env, setup_yml)
    \/ Check
    \/ Create
    \/ CreateFail
    \/ Condition
    \/ LockName
    \/ \E wrote \in BOOLEAN, g \in {"alive", "gone"} : Runner(wrote, g)
    \/ \E wrote \in BOOLEAN, g \in {"alive", "gone"} : RunnerFail(wrote, g)
    \/ Cleanup
    \/ WaitRead
    \/ PollSleep
    \/ PollBreak
    \/ Conditioned
    \/ Sync
    \/ SyncFail
    \/ Sleep
    \/ RefreshReturn
    \/ \E d \in Deltas : Tick(d)
    \/ ImageChange
    \/ GuestExit

SnapSpec == InitSnap /\ [][NextSnap]_vars

\* runqemu calls, one after the other, on a cache directory that is empty
\* at first
InitRun == InitFetchIdle /\ InitSnapIdle /\ InitRunIdle

NextRun ==
    \/ \E config \in Configs : RunqemuCall(config)
    \/ Validate
    \/ Download
    \/ \E p \in Procs : GetHeader(p)
    \/ \E p \in Procs : GetHeaderFail(p)
    \/ \E p \in Procs : Stat(p)
    \/ \E p \in Procs : Decide(p)
    \/ \E p \in Procs : MkTemp(p)
    \/ \E p \in Procs : Copy(p)
    \/ \E p \in Procs : CopyFail(p)
    \/ \E p \in Procs : Except(p)
    \/ \E p \in Procs : SetUrl(p)
    \/ \E p \in Procs : SetDate(p)
    \/ \E p \in Procs : Rename(p)
    \/ Fetched
    \/ MakeSetup
    \/ Enter
    \/ Branch
    \/ Check
    \/ Create
    \/ CreateFail
    \/ Condition
    \/ LockName
    \/ \E wrote \in BOOLEAN, g \in {"alive", "gone"} : Runner(wrote, g)
    \/ \E wrote \in BOOLEAN, g \in {"alive", "gone"} : RunnerFail(wrote, g)
    \/ Cleanup
    \/ WaitRead
    \/ PollSleep
    \/ PollBreak
    \/ Conditioned
    \/ Sync
    \/ SyncFail
    \/ Sleep
    \/ Refreshed
    \/ Final
    \/ Finished
    \/ RunqemuReturn
    \/ GuestExit

RunSpec == InitRun /\ [][NextRun]_vars

\* composeurl2images calls on every compose made of the entries of the
\* model, with every pair of hints
InitCompose ==
    /\ InitFetchIdle
    /\ InitSnapIdle
    /\ run = IdleRunqemu
    /\ docs = NoDocs
    /\ nruns = 0
    /\ cq \in { [NoQuery EXCEPT !.composeurl = u, !.images = i,
                                !.variant = v, !.subvariant = s] :
                  u \in ComposeUrls, i \in SUBSET ComposeEntries,
                  v \in VariantHints, s \in SubvariantHints }
    /\ gq = NoGet
    /\ hq = NoHtml
    /\ mq = NoMake
    /\ aq = NoSplit

NextCompose == ComposeResolve

ComposeSpec == InitCompose /\ [][NextCompose]_vars

\* get_url calls on the descriptors of the model
InitGet ==
    /\ InitFetchIdle
    /\ InitSnapIdle
    /\ run = IdleRunqemu
    /\ docs = NoDocs
    /\ nruns = 0
    /\ cq = NoQuery
    /\ gq \in { [NoGet EXCEPT !.descr = d] : d \in GetDescriptors }
    /\ hq = NoHtml
    /\ mq = NoMake
    /\ aq = NoSplit

GetSpec == InitGet /\ [][GetUrlResolve]_vars

\* centoshtml2image calls on every index page of up to MaxPage links
InitHtml ==
    /\ InitFetchIdle
    /\ InitSnapIdle
    /\ run = IdleRunqemu
    /\ docs = NoDocs
    /\ nruns = 0
    /\ cq = NoQuery
    /\ gq = NoGet
    /\ hq \in { [NoHtml EXCEPT !.url = u, !.page = pg] :
                  u \in HtmlUrls, pg \in HtmlPages }
    /\ mq = NoMake
    /\ aq = NoSplit

HtmlSpec == InitHtml /\ [][HtmlResolve]_vars

\* make_setup_yml calls, one after the other, on a cache directory that
\* has no conditioning document at first
InitSetup == InitFetchIdle /\ InitSnapIdle /\ InitRunIdle

NextSetup ==
    \E setup \in SetupKinds, remove_cloud_init \in BOOLEAN,
       use_snapshot \in BOOLEAN, use_yum_cache \in BOOLEAN :
        MakeSetupYml(setup, remove_cloud_init, use_snapshot, use_yum_cache)

SetupSpec == InitSetup /\ [][NextSetup]_vars

\* the argument split on every list of up to MaxArgs items
InitArgs ==
    /\ InitFetchIdle
    /\ InitSnapIdle
    /\ run = IdleRunqemu
    /\ docs = NoDocs
    /\ nruns = 0
    /\ cq = NoQuery
    /\ gq = NoGet
    /\ hq = NoHtml
    /\ mq = NoMake
    /\ aq \in { [NoSplit EXCEPT !.ansible_args = a] : a \in ArgSeqs }

ArgSpec == InitArgs /\ [][SplitCall]_vars

\* fetch_image calls on a cache directory that holds files of earlier
\* calls, some without their xattrs
InitStale ==
    /\ remote \in [URLs -> HeaderValues]
    /\ files \in [Paths -> PreFiles]
    /\ orphans = {}
    /\ fetch = [p \in Procs |-> IdleFetch]
    /\ ncalls = 0
    /\ hist = NoCall
    /\ InitSnapIdle
    /\ InitRunIdle

NextStale ==
    \/ \E p \in Procs, url \in URLs, label \in Labels : FetchCall(p, url, label)
    \/ \E p \in Procs : GetHeader(p)
    \/ \E p \in Procs : GetHeaderFail(p)
    \/ \E p \in Procs : Stat(p)
    \/ \E p \in Procs : Decide(p)
    \/ \E p \in Procs : MkTemp(p)
    \/ \E p \in Procs : Copy(p)
    \/ \E p \in Procs : CopyFail(p)
    \/ \E p \in Procs : Except(p)
    \/ \E p \in Procs : SetUrl(p)
    \/ \E p \in Procs : SetDate(p)
    \/ \E p \in Procs : Rename(p)
    \/ \E p \in Procs : FetchReturn(p)

StaleSpec == InitStale /\ [][NextStale]_vars

\* two invocations of fetch_image on the same cache directory and label,
\* their steps interleaved in every way; the target path holds nothing or
\* a complete entry at first
InitRace ==
    /\ remote \in [URLs -> HeaderValues]
    /\ files \in [Paths -> {NoFile} \cup { Entry(u, <<"Mon">>) : u \in URLs }]
    /\ orphans = {}
    /\ fetch = [p \in Racers |-> IdleFetch]
    /\ ncalls = 0
    /\ hist = NoCall
    /\ InitSnapIdle
    /\ InitRunIdle

NextRace ==
    \/ \E p \in Racers, url \in URLs, label \in Labels :
          FetchCall(p, url, label)
    \/ \E p \in Racers : GetHeader(p)
    \/ \E p \in Racers : GetHeaderFail(p)
    \/ \E p \in Racers : Stat(p)
    \/ \E p \in Racers : Decide(p)
    \/ \E p \in Racers : MkTemp(p)
    \/ \E p \in Racers : Copy(p)
    \/ \E p \in Racers : CopyFail(p)
    \/ \E p \in Racers : Except(p)
    \/ \E p \in Racers : SetUrl(p)
    \/ \E p \in Racers : SetDate(p)
    \/ \E p \in Racers : Rename(p)
    \/ \E p \in Racers : FetchReturn(p)

RaceSpec == InitRace /\ [][NextRace]_vars

(************************* claims on fetch_image ****************************)

\* the cached entry f is fresh for url when the origin answers hdr
FreshEntry(f, url, hdr) == f.exists /\ f.url = url /\ f.date = hdr

Repeated(c) ==
    /\ c.pc = "done"
    /\ c.headOk
    /\ hist.ret.kind = "path"
    /\ c.url = hist.url
    /\ c.label = hist.label
    /\ c.lmSrc = hist.lmSrc

\* C2: of two calls in a row with the same url and label and an unchanged
\* Last-Modified header, the second makes no body transfer and returns the
\* same path; the two make one transfer in total when the first found no file.
C2_TwiceOneTransfer ==
    \A p \in Procs :
        LET c == fetch[p] IN
        Repeated(c) =>
            /\ c.xfers = 0
            /\ c.ret = hist.ret
            /\ hist.xfers + c.xfers <= 1
            /\ ~hist.hadFile => hist.xfers + c.xfers = 1

\* the first call filled an empty cache, the second reused the entry
C2_Witness ==
    \E p \in Procs :
        /\ Repeated(fetch[p])
        /\ ~hist.hadFile
        /\ hist.xfers = 1
        /\ fetch[p].xfers = 0

C4_FailedTransferLeavesTarget ==
    \A p \in Procs :
        LET c == fetch[p] IN
        (c.pc = "done" /\ c.copyFailed) =>
            /\ c.ret = ReturnedNone
            /\ c.tmp = NoFile
            /\ \A f \in orphans : f.body.full
            /\ files[c.path] = c.pre

\* a transfer failed while an older entry was at the target path
C4_Witness ==
    \E p \in Procs :
        /\ fetch[p].pc = "done"
        /\ fetch[p].copyFailed
        /\ fetch[p].pre.exists

IsPrefix(s, t) == Len(s) <= Len(t) /\ SubSeq(t, 1, Len(s)) = s

\* the age of the snapshot that the call found, at the time of its check
AgeAtCheck == rs.now - rs.pre.ctime

\* C6 as stated: the snapshot needs no refresh if and only if it exists, its
\* creation time is less than the staleness window in the past, and it is not
\* older than the backing file.
C6_FreshIffYoungerThanWindow ==
    rs.checked =>
        (~rs.need_refresh <=>
            /\ rs.pre.exists
            /\ AgeAtCheck < StaleWindow
            /\ ~(rs.pre.ctime < rs.file_ctime))

\* C6 as amended: the snapshot needs no refresh if and only if it exists, its
\* creation time is at most the staleness window in the past, and it is not
\* older than the backing file.
C6_FreshIffNotOlderThanWindow ==
    rs.checked =>
        (~rs.need_refresh <=>
            /\ rs.pre.exists
            /\ AgeAtCheck <= StaleWindow
            /\ ~(rs.pre.ctime < rs.file_ctime))

\* a snapshot exactly one staleness window old, left by a refresh that had
\* run to its end, was found fresh
C6_Witness ==
    /\ rs.checked
    /\ ~rs.need_refresh
    /\ rs.pre.exists
    /\ rs.pre.cond = "settled"
    /\ AgeAtCheck = StaleWindow

\* C7: for an existing snapshot not older than its backing file, a creation
\* time of exactly now - StaleWindow is fresh and one time unit earlier is
\* stale.
C7_WindowBoundary ==
    (rs.checked /\ rs.pre.exists /\ rs.pre.ctime >= rs.file_ctime) =>
        /\ rs.pre.ctime = rs.now - StaleWindow => ~rs.need_refresh
        /\ rs.pre.ctime = rs.now - StaleWindow - 1 => rs.need_refresh

\* a snapshot one time unit older than the window was found stale
C7_Witness ==
    /\ rs.checked
    /\ rs.need_refresh
    /\ rs.pre.exists
    /\ rs.pre.ctime >= rs.file_ctime
    /\ rs.pre.ctime = rs.now - StaleWindow - 1

\* C8: a snapshot whose creation time is earlier than the backing file's
\* change time is refreshed whatever its age: the call finds it stale and
\* does not end without having started the creation of a new snapshot.
C8_OlderThanBackingRefreshed ==
    (rs.checked /\ rs.pre.exists /\ rs.pre.ctime < rs.file_ctime) =>
        /\ rs.need_refresh
        /\ rs.pc # "idle"
        /\ rs.pc = "done" => (rs.log # <<>> /\ rs.log[1] = "create")

\* a snapshot well inside the staleness window was refreshed because the
\* backing file had changed after it
C8_Witness ==
    /\ rs.checked
    /\ rs.pre.exists
    /\ rs.pre.ctime < rs.file_ctime
    /\ AgeAtCheck < StaleWindow
    /\ rs.pc = "done"
    /\ rs.ret = "ok"
    /\ snap.ctime >= image.ctime

\* C9: in a refresh the steps start and succeed in the order create, run the
\* playbooks (with the wait for the guest), sync, sleep; a step starts only
\* when the one before it has succeeded, and the call returns normally only
\* after the sleep.
C9_RefreshStepsInOrder ==
    (rs.checked /\ rs.need_refresh) =>
        /\ IsPrefix(rs.log, FullLog)
        /\ rs.pc = "create" => rs.log = <<>>
        /\ rs.pc = "env" => rs.log = SubSeq(FullLog, 1, 2)
        /\ rs.pc = "run" => rs.log = SubSeq(FullLog, 1, 3)
        /\ rs.pc = "sync" => rs.log = SubSeq(FullLog, 1, 4)
        /\ rs.pc = "sleep" => rs.log = SubSeq(FullLog, 1, 6)
        /\ (rs.pc = "done" /\ rs.ret = "ok") => rs.log = FullLog

\* a refresh that had to wait for the guest process has run to its end
C9_Witness ==
    /\ rs.checked
    /\ rs.need_refresh
    /\ rs.pc = "done"
    /\ rs.ret = "ok"
    /\ rs.log = FullLog
    /\ guest.state = "gone"
    /\ now > rs.now + DEFAULT_POST_SNAP_SLEEP_TIME

\* C10: a call that finds the snapshot fresh returns at once: no step of a
\* refresh is started (no create, no runner, no sync, no sleep), the snapshot
\* file is as it was and there is no lock file.
C10_FreshIsNoOp ==
    (rs.checked /\ ~rs.need_refresh) =>
        /\ rs.pc = "done"
        /\ rs.ret = "ok"
        /\ rs.log = <<>>
        /\ snap = rs.pre
        /\ ~lock.exists

\* a fresh snapshot was found and left alone
C10_Witness ==
    /\ rs.checked
    /\ ~rs.need_refresh
    /\ rs.pc = "done"
    /\ rs.pre.exists
    /\ snap = rs.pre
    /\ 0 < AgeAtCheck
    /\ AgeAtCheck < StaleWindow

(************ claims on internal_run_ansible_playbooks and runqemu **********)

\* C11: when the runner fails in a call that was asked to wait, no lock file
\* exists when the error leaves internal_run_ansible_playbooks; in
\* refresh_snapshot the snapshot created before the failure stays where it
\* is, and neither the sync nor the sleep is started.
C11_RunnerFailureCleansUp ==
    /\ (ir.pc = "done" /\ ir.ret = "raise" /\ ir.wait_on_qemu)
          => ~lock.exists
    /\ (rs.pc = "done" /\ rs.ret = "raise" /\ rs.log # <<>>
            /\ rs.log[Len(rs.log)] = "run")
          => /\ ~lock.exists
             /\ snap.exists
             /\ snap.ctime >= rs.now
             /\ \A i \in 1..Len(rs.log) :
                   rs.log[i] \notin {"sync", "sync.ok", "sleep", "sleep.ok"}

\* the conditioning run failed after its guest had left a process id in the
\* lock file; the new snapshot is there, the lock file is not
C11_Witness ==
    /\ rs.pc = "done"
    /\ rs.ret = "raise"
    /\ rs.log = SubSeq(FullLog, 1, 3)
    /\ guest.recorded
    /\ snap.exists
    /\ ~lock.exists

\* C12: the conditioning run of refresh_snapshot is always asked to wait,
\* whatever wait_on_qemu the caller was given, and the sync and the sleep
\* do not start while the guest process that the run recorded is alive.
C12_ConditioningWaitsForGuest ==
    /\ (ir.pc # "idle" /\ ir.site = "refresh") => ir.wait_on_qemu
    /\ (\/ rs.pc \in {"sync", "sleep"}
        \/ (rs.pc = "done" /\ rs.ret = "ok" /\ rs.need_refresh))
          => ~(guest.recorded /\ guest.state = "alive")

\* a run without wait_on_qemu has waited, through at least one sleep, for
\* the guest of its conditioning run and is about to sync
C12_Witness ==
    /\ run.pc = "refresh"
    /\ ~run.a.wait_on_qemu
    /\ rs.pc = "sync"
    /\ guest.recorded
    /\ guest.state = "gone"
    /\ now > rs.now

\* C13: after a runner call that succeeded, with wait_on_qemu and a lock
\* file, the process id is read from the file and the file is removed before
\* the first probe; the loop sleeps one second per probe that finds the
\* process and ends when a probe does not; no lock file exists when the
\* function returns.
C13_WaitReadsPidUnlinksThenPolls ==
    [][ /\ (ir.pc = "waitread" /\ ir.wait_on_qemu /\ lock.exists
                /\ ir' # ir)
              => /\ ir'.pc = "poll"
                 /\ ir'.waitpid = lock.pid
                 /\ ~lock'.exists
        /\ (ir.pc = "poll" /\ ir'.pc = "poll" /\ ir' # ir)
              => /\ Alive(ir.waitpid)
                 /\ ir'.sleeps = ir.sleeps + 1
                 /\ now' = now + 1
        /\ (ir.pc = "poll" /\ ir'.pc # "poll")
              => /\ ~Alive(ir.waitpid)
                 /\ ir'.pc = "done"
                 /\ ir'.ret = "ok"
        /\ ir'.pc = "poll" => ~lock'.exists
        /\ (ir'.pc = "done" /\ ir'.ret = "ok" /\ ir'.wait_on_qemu)
              => ~lock'.exists
      ]_vars

\* a call has read the guest's process id, slept at least once and
\* returned; the lock file is gone
C13_Witness ==
    /\ ir.pc = "done"
    /\ ir.ret = "ok"
    /\ ir.wait_on_qemu
    /\ guest.recorded
    /\ ir.waitpid = guest.pid
    /\ ir.sleeps >= 1
    /\ ~lock.exists

\* C14: in the wait loop, a probe that does not find the process ends the
\* loop without a sleep (at the first probe as at any later one), and the
\* loop is never left while the process is alive: it has no timeout.
C14_WaitLoopEndsOnlyWhenGone ==
    [][ ir.pc = "poll" =>
          /\ Alive(ir.waitpid) => ir'.pc = "poll"
          /\ (~Alive(ir.waitpid) /\ ir' # ir)
                => /\ ir'.pc = "done"
                   /\ ir'.sleeps = ir.sleeps
                   /\ now' = now
      ]_vars

\* the loop has slept twice and is still in the loop, the process being alive
C14_Witness ==
    /\ ir.pc = "poll"
    /\ Alive(ir.waitpid)
    /\ ir.sleeps >= 2

\* C15: with use_snapshot, the TEST_SUBJECTS of every runner call of
\* run_ansible_playbooks (the conditioning run and the test run) is the
\* snapshot file, image file + ".snap", and not the image file.
C15_SnapshotIsSubject ==
    (run.a.use_snapshot /\ ir.pc # "idle") =>
        /\ ir.test_env.TEST_SUBJECTS = SnapFile(run.file)
        /\ ir.test_env.TEST_SUBJECTS # run.file

\* the runner of the test run has been called on a snapshot that the same
\* run had conditioned
C15_Witness ==
    /\ run.a.use_snapshot
    /\ ir.site = "final"
    /\ ir.pc = "waitread"
    /\ snap.cond = "settled"
    /\ snap.ctime >= image.ctime
    /\ run.old = "none"

\* C16: with erase_old_snapshot and use_snapshot, a snapshot file that
\* exists is removed before refresh_snapshot looks at it: the call finds no
\* snapshot, needs a refresh, creates a snapshot and, if it returns
\* normally, has conditioned it; so also when the old snapshot was fresh.
C16_EraseForcesRefresh ==
    (/\ run.pc = "refresh"
     /\ run.a.use_snapshot
     /\ run.a.erase_old_snapshot
     /\ run.old # "none") =>
        /\ rs.pc # "idle"
        /\ ~rs.pre.exists
        /\ rs.pc = "check" => ~snap.exists
        /\ rs.checked => rs.need_refresh
        /\ rs.pc = "done" => (rs.log # <<>> /\ rs.log[1] = "create")
        /\ (rs.pc = "done" /\ rs.ret = "ok")
              => (rs.log = FullLog /\ snap.exists /\ snap.cond = "settled")

\* a fresh snapshot was erased and a new one created and conditioned
C16_Witness ==
    /\ run.pc = "refresh"
    /\ run.a.erase_old_snapshot
    /\ run.old = "fresh"
    /\ rs.pc = "done"
    /\ rs.ret = "ok"
    /\ snap.cond = "settled"

\* whether the pieces b of a basename end in ".yml"
EndsInYml(b) == Len(b) >= 2 /\ SubSeq(b, Len(b) - 1, Len(b)) = <<".", "yml">>

\* a write_inventory path whose basename is neither "inventory" nor ends
\* in ".yml"
NameRejected(w) ==
    /\ w # PyNone
    /\ basename(w) # <<"inventory">>
    /\ ~EndsInYml(basename(w))

\* C17: a runqemu call with a write_inventory whose basename is neither
\* "inventory" nor ends in ".yml" raises at once, and no step of it touches
\* the cache, the conditioning documents or the snapshot, or starts
\* fetch_image, refresh_snapshot or the runner.
C17_BadInventoryNameNoEffect ==
    [][ (run'.pc # "idle" /\ NameRejected(run'.a.write_inventory)) =>
          /\ run'.pc \in {"validate", "done"}
          /\ run'.pc = "done" => run'.ret = "raise"
          /\ UNCHANGED <<remote, files, orphans, fetch, ncalls, docs, image,
                         snap, lock, rs, ir>>
      ]_vars

\* such a call has raised although it was told to erase a snapshot that
\* exists, and with conditioning documents of an earlier run in the cache
C17_Witness ==
    /\ run.pc = "done"
    /\ run.ret = "raise"
    /\ NameRejected(run.a.write_inventory)
    /\ run.a.use_snapshot
    /\ run.a.erase_old_snapshot
    /\ run.a.image.source # PyNone
    /\ snap.exists
    /\ docs.pre # <<>>
    /\ docs.post # <<>>

\* a descriptor without a file and a source whose compose does not resolve
\* to exactly one image, or which names no origin at all
NoOneUrl(descr) ==
    /\ descr.file = PyNone
    /\ descr.source = PyNone
    /\ IF descr.compose # PyNone
       THEN Cardinality(Narrowed(ComposeImages(descr.compose), "x86_64",
                                 descr.variant, PyNone)) # 1
       ELSE descr.centoshtml = PyNone

\* C18: when the compose of the descriptor resolves to no image or to more
\* than one, or the descriptor names no origin, get_url gives no URL and
\* the run raises in download_image: fetch_image is not called, no file is
\* made in the cache, and neither refresh_snapshot nor the runner starts.
C18_UnresolvedImageFailsRun ==
    [][ (run'.pc # "idle" /\ NoOneUrl(run'.a.image)) =>
          /\ Falsy(get_url(run'.a.image))
          /\ run'.pc \in {"validate", "download", "done"}
          /\ run'.pc = "done" => run'.ret = "raise"
          /\ UNCHANGED <<files, orphans, fetch, ncalls, docs, snap, rs, ir>>
      ]_vars

\* a run with a valid write_inventory has raised because its compose has
\* two images and the descriptor has no hint
C18_Witness ==
    /\ run.pc = "done"
    /\ run.ret = "raise"
    /\ ~NameRejected(run.a.write_inventory)
    /\ run.a.image.compose # PyNone
    /\ run.a.image.variant = PyNone
    /\ Cardinality(Candidates(ComposeImages(run.a.image.compose),
                              "x86_64")) = 2
    /\ run.failed = NoFetched

\* C19: a failed body transfer ends the run: the fetch_image call has made
\* one transfer and returns None, download_image raises, image["file"]
\* stays unset, and no step after the failure builds conditioning
\* documents, touches the snapshot or starts refresh_snapshot or the runner.
C19_FetchFailureIsFatal ==
    [][ /\ fetch'[Self].copyFailed =>
              /\ fetch'[Self].xfers = 1
              /\ fetch'[Self].pc \in {"except", "done"}
              /\ fetch'[Self].pc = "done" => fetch'[Self].ret = ReturnedNone
              /\ run'.pc = "fetch"
        /\ run'.failed.copyFailed =>
              /\ run'.failed.xfers = 1
              /\ run'.failed.kind = "none"
              /\ run'.pc = "done"
              /\ run'.ret = "raise"
              /\ run'.file = PyNone
        /\ (fetch[Self].copyFailed \/ run.failed.copyFailed) =>
              UNCHANGED <<files, docs, snap, rs, ir>>
      ]_vars

\* a run that was to use a snapshot has raised after its transfer failed
C19_Witness ==
    /\ run.failed.copyFailed
    /\ run.pc = "done"
    /\ run.ret = "raise"
    /\ run.a.use_snapshot
    /\ run.a.image.source # PyNone
    /\ ~NameRejected(run.a.write_inventory)

\* C20: in composeurl2images, with more than one candidate and a variant
\* hint, the candidates become exactly those of the hinted variant if there
\* is one, and stay as they are if there is none; the function does not end
\* up without a candidate because of the hint.
C20_VariantHintNarrowsOrFallsBack ==
    cq.done =>
        LET candidates == Candidates(cq.images, "x86_64")
            matching == { e \in candidates : cq.variant = <<e.variant>> }
        IN  (Cardinality(candidates) > 1 /\ cq.variant # PyNone) =>
                /\ matching # {} => cq.byvariant = matching
                /\ matching = {} => cq.byvariant = candidates
                /\ cq.left # {}
                /\ cq.left \subseteq cq.byvariant
                /\ cq.subvariant = PyNone =>
                      cq.out = { <<WithSlash(cq.composeurl[1])>> \o e.path :
                                    e \in cq.byvariant }

\* of three candidates the hint has kept the two of its variant
C20_Witness ==
    /\ cq.done
    /\ Cardinality(Candidates(cq.images, "x86_64")) = 3
    /\ cq.variant = <<"Cloud">>
    /\ cq.subvariant = PyNone
    /\ Cardinality(cq.byvariant) = 2
    /\ Cardinality(cq.out) = 2

(************** claims on get_url and centoshtml2image **********************)

\* the candidates of a compose descriptor that the variant hint leaves
LeftByVariant(descr) ==
    NarrowByVariant(Candidates(ComposeImages(descr.compose), "x86_64"),
                    descr.variant)

\* those of them that have the subvariant of the descriptor's hint
OfSubvariant(descr) ==
    { e \in LeftByVariant(descr) : <<e.subvariant>> = descr.subvariant }

\* C21: for a compose descriptor with more than one candidate left after
\* the variant hint, a subvariant hint that singles out one candidate makes
\* get_url return the URL of that candidate.
C21_SubvariantHintResolves ==
    (/\ gq.done
     /\ gq.descr.source = PyNone
     /\ gq.descr.compose # PyNone
     /\ Cardinality(LeftByVariant(gq.descr)) > 1
     /\ Cardinality(OfSubvariant(gq.descr)) = 1)
    => gq.url = <<WithSlash(gq.descr.compose[1])>>
                \o (CHOOSE e \in OfSubvariant(gq.descr) : TRUE).path

\* get_url has answered for a compose with two Cloud images of which the
\* subvariant hint names one
C21_Witness ==
    /\ gq.done
    /\ gq.descr.compose = <<"http://w">>
    /\ gq.descr.variant = <<"Cloud">>
    /\ gq.descr.subvariant = <<"Mini">>
    /\ Cardinality(LeftByVariant(gq.descr)) = 2
    /\ Cardinality(OfSubvariant(gq.descr)) = 1

\* a link whose name has the release form for the version and architecture
IsRelease(h, centosver, desiredarch) ==
    /\ h.form = "release"
    /\ h.ver = centosver
    /\ h.arch = desiredarch
    /\ h.ext = ".qcow2"

\* the links of the page of the call that have it
ReleaseLinks ==
    { i \in 1..Len(hq.page) :
        IsRelease(hq.page[i], CentosVersion(WithSlash(hq.url[1])),
                  "x86_64") }

\* C22: centoshtml2image looks only at the links whose name has the form
\* for the version and the architecture, and returns the one of them with
\* the greatest version-date token.
C22_GreatestDateAmongMatches ==
    (/\ hq.done
     /\ CentosVersion(WithSlash(hq.url[1])) # 0
     /\ ReleaseLinks # {})
    => \E i \in ReleaseLinks :
          /\ \A j \in ReleaseLinks : hq.page[j].date <= hq.page[i].date
          /\ hq.out = <<WithSlash(hq.url[1]), hq.page[i], hq.page[i].ext>>

\* the call has answered for a page that lists the newer image before the
\* older one
C22_Witness ==
    /\ hq.done
    /\ Len(hq.page) = 2
    /\ ReleaseLinks = {1, 2}
    /\ hq.page[1].date > hq.page[2].date
    /\ Len(hq.out) = 3

(************************ claims on make_setup_yml **************************)

\* the names of the tasks of the plays of a document, those of the
\* descriptor's own plays aside
TasksOf(doc) ==
    UNION { { doc[i].tasks[k] : k \in 1..Len(doc[i].tasks) } :
              i \in { j \in 1..Len(doc) :
                        doc[j].name = "Set up host for test playbooks" } }

Elements(seq) == { seq[i] : i \in 1..Len(seq) }

\* C23: make_setup_yml writes the pre-setup document and returns its path
\* whenever the image has setup tasks (a string or a list), or
\* remove_cloud_init is set, or use_snapshot or use_yum_cache is set, and
\* the document has the tasks asked for.
C23_PreSetupWrittenWhenTasks ==
    (/\ mq.n > 0
     /\ \/ mq.descr.setup # "absent"
        \/ mq.remove_cloud_init
        \/ mq.use_snapshot
        \/ mq.use_yum_cache)
    => /\ docs.pre # <<>>
       /\ mq.ret.pre = PreSetupPath
       /\ mq.descr.setup = "str" => "raw" \in TasksOf(docs.pre)
       /\ mq.descr.setup = "list" =>
             \E i \in 1..Len(docs.pre) : docs.pre[i] = ImagePlays[1]
       /\ mq.remove_cloud_init =>
             Elements(CloudInitTasks) \subseteq TasksOf(docs.pre)
       /\ (mq.use_snapshot \/ mq.use_yum_cache) =>
             Elements(CacheTasks) \subseteq TasksOf(docs.pre)

\* make_setup_yml has returned for an image without setup tasks, with
\* remove_cloud_init
C23_Witness ==
    /\ mq.n > 0
    /\ mq.descr.setup = "absent"
    /\ mq.remove_cloud_init
    /\ ~mq.use_snapshot
    /\ ~mq.use_yum_cache

\* C24: with no setup tasks in the image and the three flags off,
\* make_setup_yml returns None for both documents and no document is in
\* the cache directory afterwards, whatever an earlier call has left.
C24_NothingAskedNothingLeft ==
    (/\ mq.n > 0
     /\ mq.descr.setup = "absent"
     /\ ~mq.remove_cloud_init
     /\ ~mq.use_snapshot
     /\ ~mq.use_yum_cache)
    => /\ mq.ret = [pre |-> PyNone, post |-> PyNone]
       /\ docs = NoDocs

\* such a call has returned on a cache directory in which the call before
\* had left both documents
C24_Witness ==
    /\ mq.n > 1
    /\ mq.descr.setup = "absent"
    /\ ~mq.remove_cloud_init
    /\ ~mq.use_snapshot
    /\ ~mq.use_yum_cache
    /\ mq.before.pre # <<>>
    /\ mq.before.post # <<>>
    /\ docs = NoDocs

\* C25: make_setup_yml leaves and returns a post-setup document if and only
\* if use_snapshot is set; it is a document of its own, with one play of
\* exactly two tasks: the sync, then the shutdown, which is started in the
\* background (async) and not waited for (poll 0).
C25_PostSetupIffSnapshot ==
    mq.n > 0 =>
        /\ docs.post # <<>> <=> mq.use_snapshot
        /\ mq.ret.post # PyNone <=> mq.use_snapshot
        /\ mq.use_snapshot =>
              /\ mq.ret.post = PostSetupPath
              /\ mq.ret.post # mq.ret.pre
              /\ Len(docs.post) = 1
              /\ \A i \in 1..Len(docs.pre) :
                    docs.pre[i].name # docs.post[1].name
              /\ Len(docs.post[1].tasks) = 2
              /\ docs.post[1].tasks[1].command = "sync"
              /\ docs.post[1].tasks[1].async = PyNone
              /\ docs.post[1].tasks[2].command = "shutdown now"
              /\ docs.post[1].tasks[2].async # PyNone
              /\ docs.post[1].tasks[2].poll = <<0>>

\* a call with use_snapshot has left both documents
C25_Witness ==
    /\ mq.n > 0
    /\ mq.use_snapshot
    /\ docs.pre # <<>>
    /\ docs.post # <<>>
    /\ mq.ret.pre = PreSetupPath

(************************* claims on the phases of a run ********************)

\* the places of a path in a list of playbooks
PlacesOf(path, playbooks) ==
    { i \in 1..Len(playbooks) : playbooks[i] = path }

\* the places of the caller's conditioning playbooks in it
CallerPlaces(playbooks) ==
    { i \in 1..Len(playbooks) :
        \E k \in 1..Len(run.a.setup_yml) :
            playbooks[i] = abspath(run.a.setup_yml[k]) }

\* C26: in the playbooks of a runner call that gets the conditioning
\* playbooks, the pre-setup document is first if it was written, the
\* post-setup document is last of them if it was written, after the
\* pre-setup document and the caller's conditioning playbooks; the
\* post-setup document is only in the list of a conditioning run of
\* refresh_snapshot.
C26_ConditioningOrder ==
    (run.pc # "idle" /\ ir.pc # "idle") =>
        LET pres == PlacesOf(PreSetupPath, ir.playbooks)
            posts == PlacesOf(PostSetupPath, ir.playbooks)
            conditioning == ir.site = "refresh" \/ ~run.a.use_snapshot
        IN  /\ ir.site = "refresh" => run.a.use_snapshot
            /\ (conditioning /\ docs.pre # <<>>) => pres = {1}
            /\ (conditioning /\ docs.pre = <<>>) => pres = {}
            /\ ~conditioning => pres = {}
            /\ conditioning =>
                  Cardinality(CallerPlaces(ir.playbooks))
                      = Len(run.a.setup_yml)
            /\ (ir.site = "refresh" /\ docs.post # <<>>) =>
                  posts = {Len(ir.playbooks)}
            /\ posts # {} =>
                  /\ ir.site = "refresh"
                  /\ posts = {Len(ir.playbooks)}
                  /\ \A i \in pres \cup CallerPlaces(ir.playbooks) :
                        i < Len(ir.playbooks)

\* the conditioning run of a refresh has been handed the pre-setup
\* document, a playbook of the caller and the post-setup document
C26_Witness ==
    /\ run.pc = "refresh"
    /\ ir.pc = "runner"
    /\ ir.site = "refresh"
    /\ Len(ir.playbooks) = 3
    /\ ir.playbooks[1] = PreSetupPath
    /\ ir.playbooks[3] = PostSetupPath

\* the phases of a whole run
AllPhases(use_snapshot) ==
    IF use_snapshot
    THEN <<"image", "scripts", "refresh", "test">>
    ELSE <<"image", "scripts", "test">>

\* C27: the phases of a run begin in the order image, conditioning
\* scripts, snapshot refresh (with use_snapshot), test run; the test run is
\* begun only if the image was obtained, no transfer failed and, with
\* use_snapshot, refresh_snapshot returned; after a refresh_snapshot that
\* raised, the run ends with the exception and without a test run.
C27_PhasesInOrder ==
    run.pc # "idle" =>
        LET all == AllPhases(run.a.use_snapshot)
            tested == run.phases = all
        IN  /\ IsPrefix(run.phases, all)
            /\ Len(run.phases) >= 2 => run.file # PyNone
            /\ tested =>
                  /\ run.file # PyNone
                  /\ run.failed = NoFetched
                  /\ run.a.use_snapshot <=> run.refreshed = "ok"
            /\ (ir.pc # "idle" /\ ir.site = "final") =>
                  (tested /\ run.pc = "test")
            /\ run.refreshed \notin {"none", "ok"} =>
                  /\ ~tested
                  /\ run.pc = "done"
                  /\ run.ret = "raise"

\* a run has ended with the exception of its snapshot refresh
C27_Witness ==
    /\ run.pc = "done"
    /\ run.refreshed = "raise"
    /\ run.phases = <<"image", "scripts", "refresh">>
    /\ ir.pc = "idle"

(********************* claims on the cache under stress **********************)

\* C28: a call that finds a file at the target path without its origin-URL
\* tag or without its last-modified tag fetches the image again: once the
\* header is read, the call ends only after a transfer.
C28_MissingTagIsStale ==
    \A p \in Procs :
        (/\ fetch[p].pc = "done"
         /\ fetch[p].headOk
         /\ fetch[p].pre.exists
         /\ (fetch[p].pre.url = PyNone \/ fetch[p].pre.date = PyNone))
        => fetch[p].xfers = 1

\* a call has found a file that has the URL tag of its URL and no
\* last-modified tag
C28_Witness ==
    \E p \in Procs :
        /\ fetch[p].pc = "done"
        /\ fetch[p].headOk
        /\ fetch[p].pre.exists
        /\ fetch[p].pre.url = fetch[p].url
        /\ fetch[p].pre.date = PyNone

\* a file that is absent or a complete entry: a whole body with the two
\* tags of the call that read it
WholeEntry(f) ==
    f.exists =>
        /\ f.body.full
        /\ f.url # PyNone
        /\ f.date # PyNone
        /\ f.url = f.body.src
        /\ f.date = f.body.hdr

Dashes == { i \in 1..Len(aq.ansible_args) : aq.ansible_args[i] = <<"--">> }

FirstDash == CHOOSE i \in Dashes : \A j \in Dashes : i <= j

AfterFirstDash ==
    SubSeq(aq.ansible_args, FirstDash + 1, Len(aq.ansible_args))

\* C30 as stated: with a "--", the items before the first "--" are the
\* arguments of the runner and every item after it is a playbook; without
\* one every item is a playbook and there are no arguments of the runner.
C30_SplitOnDashes ==
    aq.done =>
        IF Dashes # {}
        THEN /\ aq.local_ansible_args
                    = SubSeq(aq.ansible_args, 1, FirstDash - 1)
             /\ aq.playbooks = AfterFirstDash
        ELSE /\ aq.local_ansible_args = <<>>
             /\ aq.playbooks = aq.ansible_args

\* C30 as amended: the items after the first "--" are playbooks except for
\* further "--" items, which are dropped.
C30_SplitOnFirstDashes ==
    aq.done =>
        IF Dashes # {}
        THEN /\ aq.local_ansible_args
                    = SubSeq(aq.ansible_args, 1, FirstDash - 1)
             /\ aq.playbooks
                    = SelectSeq(AfterFirstDash, LAMBDA item : item # <<"--">>)
        ELSE /\ aq.local_ansible_args = <<>>
             /\ aq.playbooks = aq.ansible_args

\* a list with an argument, "--" and a playbook has been split
C30_Witness ==
    /\ aq.done
    /\ Len(aq.ansible_args) = 3
    /\ Dashes = {2}
    /\ FirstDash = 2
    /\ Len(aq.local_ansible_args) = 1
    /\ Len(aq.playbooks) = 1

(*********************** claims on repeated runs *****************************)

\* C31: after refresh_snapshot has refreshed the snapshot and returned
\* normally, a following call that finds the backing file as it was when the
\* snapshot was created, and the snapshot not older than the staleness
\* window, does nothing: it needs no refresh, returns at once, starts no
\* step of a refresh, leaves the snapshot file as it is and calls no runner.
C31_RefreshedThenNoOp ==
    (/\ rs.checked
     /\ rs.pre.cond = "settled"
     /\ rs.file_ctime = rs.pre.base
     /\ AgeAtCheck <= StaleWindow) =>
        /\ ~rs.need_refresh
        /\ rs.pc = "done"
        /\ rs.ret = "ok"
        /\ rs.log = <<>>
        /\ snap = rs.pre
        /\ ir = IdleRun
        /\ ~lock.exists

\* the second call comes some time after a refresh that ran to its end, the
\* backing file being the one the snapshot was created on
C31_Witness ==
    /\ nrefresh = 2
    /\ rs.checked
    /\ rs.pc = "done"
    /\ ~rs.need_refresh
    /\ rs.pre.cond = "settled"
    /\ rs.file_ctime = rs.pre.base
    /\ AgeAtCheck > DEFAULT_POST_SNAP_SLEEP_TIME
    /\ AgeAtCheck <= StaleWindow
    /\ snap = rs.pre

\* C32: in any sequence of runs, a snapshot that refresh_snapshot finds fresh
\* and leaves alone is one whose conditioning had run to its end (the
\* playbooks succeeded, then the sync and the settle sleep were done); a
\* snapshot that a failed conditioning run left behind is never taken as
\* fresh.
C32_FreshOnlyIfConditioned ==
    (rs.checked /\ ~rs.need_refresh) => rs.pre.cond = "settled"

\* the test run is started on a snapshot that an earlier run had created
\* and whose conditioning run had failed
C32_Witness ==
    /\ nruns = 2
    /\ run.a.use_snapshot
    /\ run.old = "fresh"
    /\ run.refreshed = "ok"
    /\ run.pc = "test"
    /\ ir.site = "final"
    /\ ir.test_env.TEST_SUBJECTS = SnapFile(run.file)
    /\ snap.exists
    /\ snap.cond = "new"

\* C33: when fetch_image is over, however it ended (the cached file reused,
\* a fetch done, the body transfer failed, or an origin that sends no
\* Last-Modified header), no temporary file is left in the cache directory:
\* the target path is the only file a call adds.
C33_NoTemporaryFileLeft ==
    (\A p \in Procs : fetch[p].pc \in {"idle", "done"}) =>
        /\ orphans = {}
        /\ \A p \in Procs : ~fetch[p].tmp.exists

\* the origin sent no Last-Modified header: the body was transferred whole,
\* the call ended with the TypeError of os.fsencode(None), the target path
\* was not written and the temporary file is still there
C33_Witness ==
    \E p \in Procs :
        /\ fetch[p].pc = "done"
        /\ fetch[p].ret = Raised
        /\ fetch[p].headOk
        /\ fetch[p].lmSrc = PyNone
        /\ fetch[p].xfers = 1
        /\ ~fetch[p].copyFailed
        /\ files[fetch[p].path] = fetch[p].pre
        /\ \E t \in orphans : t.exists /\ t.body.full /\ t.url = fetch[p].url

\* the environment that run_ansible_playbooks has built for a run on the
\* snapshot before it calls refresh_snapshot: the subject, the debug flag
\* and the artifacts directory, and whatever the caller's environment holds
RunEnvOf(r) ==
    [NoEnv EXCEPT
        !.TEST_SUBJECTS = SnapFile(r.file),
        !.TEST_WRITE_TO_IMAGE = r.a.environ.TEST_WRITE_TO_IMAGE,
        !.TEST_DEBUG = IF r.a.environ.TEST_DEBUG # PyNone
                       THEN r.a.environ.TEST_DEBUG
                       ELSE IF r.a.debug THEN <<"true">> ELSE PyNone,
        !.TEST_ARTIFACTS = IF r.a.environ.TEST_ARTIFACTS # PyNone
                           THEN abspath(r.a.environ.TEST_ARTIFACTS)
                           ELSE abspath(<<"artifacts">>),
        !.LOCK_ON_FILE = r.a.environ.LOCK_ON_FILE]

\* C34: the overrides of the conditioning run (TEST_WRITE_TO_IMAGE set,
\* TEST_DEBUG removed, ".snap" added to TEST_ARTIFACTS, LOCK_ON_FILE) are
\* made on a copy: the conditioning runner gets them, and when
\* refresh_snapshot has returned the environment of the caller is what it
\* was, so the test run is started without write-to-image and without the
\* lock path of the conditioning run unless the caller's environment has
\* them.
C34_OverridesOnCopy ==
    /\ (ir.site = "refresh" /\ ir.pc = "runner") =>
           /\ ir.test_env.TEST_WRITE_TO_IMAGE = <<"True">>
           /\ ir.test_env.TEST_DEBUG = PyNone
           /\ ir.test_env.TEST_ARTIFACTS =
                  RunEnvOf(run).TEST_ARTIFACTS \o <<".snap">>
           /\ ir.test_env.LOCK_ON_FILE # PyNone
    /\ (run.a.use_snapshot /\ run.pc = "final") =>
           run.test_env = RunEnvOf(run)
    /\ (run.a.use_snapshot /\ ir.site = "final" /\ ir.pc = "lock") =>
           /\ ir.test_env.TEST_WRITE_TO_IMAGE =
                  run.a.environ.TEST_WRITE_TO_IMAGE
           /\ ir.test_env.LOCK_ON_FILE = run.a.environ.LOCK_ON_FILE
           /\ ir.test_env.TEST_DEBUG = RunEnvOf(run).TEST_DEBUG
           /\ ir.test_env.TEST_ARTIFACTS = RunEnvOf(run).TEST_ARTIFACTS

\* a run with debugging asked for has refreshed the snapshot, and starts
\* its test run with the debug flag and without write-to-image
C34_Witness ==
    /\ run.a.use_snapshot
    /\ run.a.debug
    /\ run.a.environ = NoEnv
    /\ run.old = "none"
    /\ run.refreshed = "ok"
    /\ snap.cond = "settled"
    /\ run.pc = "test"
    /\ ir.site = "final"
    /\ ir.pc = "lock"
    /\ ir.test_env.TEST_DEBUG = <<"true">>
    /\ ir.test_env.TEST_WRITE_TO_IMAGE = PyNone
    /\ ir.test_env.LOCK_ON_FILE = PyNone

\* the test playbooks of run r: what the argument split takes as playbooks,
\* made absolute
TestPlaybooks(r) ==
    LET split == SplitArgs(r.a.ansible_args).playbooks
    IN  [i \in 1..Len(split) |-> abspath(split[i])]

\* C35: with use_snapshot the conditioning playbooks are run by the runner
\* call of a snapshot refresh only, and the list of the test run holds the
\* test playbooks alone, so a run that finds the snapshot fresh runs no
\* conditioning playbook; without use_snapshot there is no refresh, and the
\* one runner call gets the conditioning playbooks, in their order, and the
\* test playbooks after them.
C35_ConditioningOnlyInRefresh ==
    /\ ir.site = "refresh" =>
           /\ run.a.use_snapshot
           /\ run.pc = "refresh"
           /\ rs.need_refresh
           /\ ir.playbooks = run.setup_yml
    /\ (run.a.use_snapshot /\ ir.site = "final") =>
           /\ ir.playbooks = TestPlaybooks(run)
           /\ \A i \in 1..Len(ir.playbooks) :
                  ir.playbooks[i] \notin Elements(run.setup_yml)
    /\ (run.pc = "refresh" /\ rs.checked /\ ~rs.need_refresh) =>
           /\ ir.pc = "idle"
           /\ rs.log = <<>>
    /\ (~run.a.use_snapshot /\ run.pc # "idle") =>
           /\ rs.pc = "idle"
           /\ ir.site # "refresh"
           /\ "refresh" \notin Elements(run.phases)
    /\ (~run.a.use_snapshot /\ ir.site = "final") =>
           ir.playbooks = run.setup_yml \o TestPlaybooks(run)

\* a second run on the snapshot finds it fresh and conditioned, and starts
\* its test run on the test playbook alone although it has conditioning
\* playbooks
C35_Witness ==
    /\ nruns = 2
    /\ run.a.use_snapshot
    /\ run.old = "fresh"
    /\ ~run.a.erase_old_snapshot
    /\ run.refreshed = "ok"
    /\ snap.cond = "settled"
    /\ Len(run.setup_yml) > 1
    /\ ir.site = "final"
    /\ ir.pc = "runner"
    /\ Len(ir.playbooks) = 1

====
